---- MODULE Spec2Model ----
(***************************************************************************)
(* Invoice-management REST API (backend/app): the relational store, the    *)
(* CRUD layer of crud.py and the request handlers of routers/*.py.         *)
(*                                                                         *)
(* The store is one record of tables; a table is a function from the ids   *)
(* of its rows to the rows.  Identifiers are uuid4 strings in the code;    *)
(* here they are the naturals 1, 2, ... handed out by a counter per table, *)
(* so an id is never reused.  Money is Float in the code; here amounts are *)
(* integers (floating-point rounding is outside this model).  Request      *)
(* payloads carry non-null values only.                                    *)
(***************************************************************************)
EXTENDS Integers, Sequences, FiniteSets, TLC

VARIABLES db, nextid, resp, sessions

vars == <<db, nextid, resp, sessions>>

(***************************************************************************)
(* Bounds of the model.                                                    *)
(***************************************************************************)
MaxInvoices == 2
MaxItems == 2
MaxPayments == 2
MaxWindow == 2
MaxRows == 1

\* Optional[T]: the absent value, and the id sets requests may name (one id
\* past the bound is never stored).
None == 0
InvoiceIds == 1..(MaxInvoices + 1)
ItemIds == 1..(MaxItems + 1)
PaymentIds == 1..(MaxPayments + 1)

(***************************************************************************)
(* models/enums.py                                                         *)
(***************************************************************************)
InvoiceStatus == {"draft", "sent", "paid", "overdue", "cancelled"}
PaymentMethod == {"cash", "bank_transfer", "credit_card", "paypal", "check"}
PaymentStatus == {"pending", "completed", "failed", "refunded"}

(***************************************************************************)
(* Input domains.                                                          *)
(***************************************************************************)
Descriptions == {"a", "b"}
Quantities == {-1, 2}
Prices == {0, 3}
Amounts == {2, 3}

\* schemas.InvoiceItemCreate
ItemSpecs == [description : Descriptions, quantity : Quantities, unit_price : Prices]

\* A field of a partial-update payload: {} when the request leaves the field
\* out (exclude_unset drops it), {v} when it supplies v.
Opt(S) == {{}} \cup {{x} : x \in S}

\* The value a partial update leaves in a field.
Patched(old, field) == IF field = {} THEN old ELSE CHOOSE x \in field : TRUE

\* schemas.InvoiceItemUpdate
ItemUpdates == [description : Opt(Descriptions), quantity : Opt(Quantities),
                unit_price : Opt(Prices)]

\* schemas.InvoiceUpdate
InvoiceUpdates(customer_ids, statuses) ==
    [customer_id : Opt(customer_ids), status : Opt(statuses), is_paid : Opt(BOOLEAN)]

\* schemas.PaymentCreate
PaymentSpecs(invoice_ids, amounts, methods, statuses) ==
    [invoice_id : invoice_ids, amount : amounts, method : methods, status : statuses]

\* schemas.PaymentUpdate
PaymentUpdates(amounts, methods, statuses) ==
    [amount : Opt(amounts), method : Opt(methods), status : Opt(statuses)]

(***************************************************************************)
(* Helpers on sequences and tables.                                        *)
(***************************************************************************)
RECURSIVE SumSeq(_)
SumSeq(s) == IF s = <<>> THEN 0 ELSE Head(s) + SumSeq(Tail(s))

RECURSIVE SumOver(_, _)
\* The sum of f[x] over the finite set S.
SumOver(f, S) ==
    IF S = {} THEN 0
    ELSE LET x == CHOOSE y \in S : TRUE IN f[x] + SumOver(f, S \ {x})

\* A table with the row `row` stored under `id`.
Put(tbl, id, row) == [k \in DOMAIN tbl \cup {id} |-> IF k = id THEN row ELSE tbl[k]]

\* A table without the rows of `ids`.
Drop(tbl, ids) == [k \in DOMAIN tbl \ ids |-> tbl[k]]

RECURSIVE SortedIds(_)
\* The ids of S in ascending order: the order the rows were inserted in.
SortedIds(S) ==
    IF S = {} THEN <<>>
    ELSE LET m == CHOOSE x \in S : \A y \in S : x <= y IN <<m>> \o SortedIds(S \ {m})

\* query.offset(skip).limit(limit) over a sequence of rows.
Window(rows, skip, limit) ==
    LET lo == skip + 1
        hi == IF skip + limit < Len(rows) THEN skip + limit ELSE Len(rows)
    IN  IF lo > hi THEN <<>> ELSE SubSeq(rows, lo, hi)

(***************************************************************************)
(* crud.py: invoices                                                       *)
(***************************************************************************)
\* crud.get_invoice: the id when the invoice is stored, None otherwise.
get_invoice(d, invoice_id) == IF invoice_id \in DOMAIN d.invoices THEN invoice_id ELSE None

\* Invoice.items: the ids of the stored items of an invoice.
InvoiceItems(d, invoice_id) == {i \in DOMAIN d.items : d.items[i].invoice_id = invoice_id}

\* item.quantity * item.unit_price
ItemTotalBad(quantity, unit_price) == quantity + unit_price
ItemTotal(quantity, unit_price) == quantity * unit_price

\* The row crud stores for an item specification.
NewItem(item, invoice_id) ==
    [invoice_id |-> invoice_id, description |-> item.description,
     quantity |-> item.quantity, unit_price |-> item.unit_price,
     total |-> ItemTotal(item.quantity, item.unit_price)]

\* crud.create_invoice: the invoice gets id `id`, its items the ids
\* first_item, first_item + 1, ... in the order supplied.
crud_create_invoice_nototal(d, invoice, user_id, id, first_item) ==
    LET db_invoice == [user_id |-> user_id, customer_id |-> invoice.customer_id,
                       status |-> invoice.status, total_amount |-> 0, is_paid |-> FALSE]
        new_ids == first_item..(first_item + Len(invoice.items) - 1)
        items2 == [k \in DOMAIN d.items \cup new_ids |->
                      IF k \in new_ids
                      THEN NewItem(invoice.items[k - first_item + 1], id)
                      ELSE d.items[k]]
    IN  [db |-> [d EXCEPT !.invoices = Put(d.invoices, id, db_invoice), !.items = items2],
         ret |-> id]

crud_create_invoice(d, invoice, user_id, id, first_item) ==
    LET total_amount ==
            SumSeq([k \in 1..Len(invoice.items) |->
                       ItemTotal(invoice.items[k].quantity, invoice.items[k].unit_price)])
        db_invoice == [user_id |-> user_id, customer_id |-> invoice.customer_id,
                       status |-> invoice.status, total_amount |-> total_amount,
                       is_paid |-> FALSE]
        new_ids == first_item..(first_item + Len(invoice.items) - 1)
        items2 == [k \in DOMAIN d.items \cup new_ids |->
                      IF k \in new_ids
                      THEN NewItem(invoice.items[k - first_item + 1], id)
                      ELSE d.items[k]]
    IN  [db |-> [d EXCEPT !.invoices = Put(d.invoices, id, db_invoice), !.items = items2],
         ret |-> id]

\* crud.get_invoices: the ids of the rows returned, in row order.
get_invoices_unfiltered(d, user_id, skip, limit) ==
    Window(SortedIds(DOMAIN d.invoices), skip, limit)

get_invoices(d, user_id, skip, limit) ==
    LET query == IF user_id /= None
                 THEN {i \in DOMAIN d.invoices : d.invoices[i].user_id = user_id}
                 ELSE DOMAIN d.invoices
    IN  Window(SortedIds(query), skip, limit)

\* crud.update_invoice
crud_update_invoice(d, invoice_id, invoice_update) ==
    IF get_invoice(d, invoice_id) = None THEN [db |-> d, ret |-> None]
    ELSE LET old == d.invoices[invoice_id]
             db_invoice == [old EXCEPT
                               !.customer_id = Patched(@, invoice_update.customer_id),
                               !.status = Patched(@, invoice_update.status),
                               !.is_paid = Patched(@, invoice_update.is_paid)]
         IN  [db |-> [d EXCEPT !.invoices = Put(d.invoices, invoice_id, db_invoice)],
              ret |-> invoice_id]

\* Invoice.payments: the ids of the stored payments that refer to an invoice.
InvoicePayments(d, invoice_id) ==
    {p \in DOMAIN d.payments : d.payments[p].invoice_id = invoice_id}

\* crud.delete_invoice.  The delete cascades to the items (cascade="all,
\* delete-orphan").  Invoice.payments has no delete cascade, so the unit of
\* work sets invoice_id of each referring payment to NULL; the column is
\* nullable=False, so the flush raises IntegrityError and nothing is deleted.
crud_delete_invoice_nocascade(d, invoice_id) ==
    IF get_invoice(d, invoice_id) = None THEN [db |-> d, ret |-> FALSE, raised |-> FALSE]
    ELSE IF InvoicePayments(d, invoice_id) /= {}
    THEN [db |-> d, ret |-> FALSE, raised |-> TRUE]
    ELSE [db |-> [d EXCEPT !.invoices = Drop(d.invoices, {invoice_id})],
          ret |-> TRUE, raised |-> FALSE]
crud_delete_invoice(d, invoice_id) ==
    IF get_invoice(d, invoice_id) = None THEN [db |-> d, ret |-> FALSE, raised |-> FALSE]
    ELSE IF InvoicePayments(d, invoice_id) /= {}
    THEN [db |-> d, ret |-> FALSE, raised |-> TRUE]
    ELSE [db |-> [d EXCEPT !.invoices = Drop(d.invoices, {invoice_id}),
                           !.items = Drop(d.items, InvoiceItems(d, invoice_id))],
          ret |-> TRUE, raised |-> FALSE]

(***************************************************************************)
(* crud.py: invoice items                                                  *)
(***************************************************************************)
crud_create_invoice_item_bad(d, item, invoice_id, id) ==
    [db |-> [d EXCEPT !.items = Put(d.items, id, NewItem(item, invoice_id))], ret |-> id]

crud_create_invoice_item_recheck(d, item, invoice_id, id) ==
    LET db_item == NewItem(item, invoice_id)
        invoice == get_invoice(d, invoice_id)
        paid == SumOver([p \in DOMAIN d.payments |-> d.payments[p].amount],
                        {p \in DOMAIN d.payments :
                            /\ d.payments[p].invoice_id = invoice_id
                            /\ d.payments[p].status = "completed"})
        invoices2 == IF invoice /= None
                     THEN [d.invoices EXCEPT
                             ![invoice].total_amount = @ + db_item.total,
                             ![invoice].is_paid =
                                 @ /\ paid >= d.invoices[invoice].total_amount
                                                + db_item.total]
                     ELSE d.invoices
    IN  [db |-> [d EXCEPT !.items = Put(d.items, id, db_item), !.invoices = invoices2],
         ret |-> id]

crud_create_invoice_item(d, item, invoice_id, id) ==
    LET db_item == NewItem(item, invoice_id)
        invoice == get_invoice(d, invoice_id)
        invoices2 == IF invoice /= None
                     THEN [d.invoices EXCEPT ![invoice].total_amount = @ + db_item.total]
                     ELSE d.invoices
    IN  [db |-> [d EXCEPT !.items = Put(d.items, id, db_item), !.invoices = invoices2],
         ret |-> id]

crud_update_invoice_item_stale(d, item_id, item_update) ==
    IF item_id \notin DOMAIN d.items THEN [db |-> d, ret |-> None]
    ELSE
    LET old == d.items[item_id]
        set == [old EXCEPT !.description = Patched(@, item_update.description),
                           !.quantity = Patched(@, item_update.quantity),
                           !.unit_price = Patched(@, item_update.unit_price)]
        invoice == get_invoice(d, old.invoice_id)
        invoices2 == IF invoice /= None
                     THEN [d.invoices EXCEPT ![invoice].total_amount =
                               @ - old.total + ItemTotal(set.quantity, set.unit_price)]
                     ELSE d.invoices
    IN  [db |-> [d EXCEPT !.items = Put(d.items, item_id, set), !.invoices = invoices2],
         ret |-> item_id]

crud_update_invoice_item_noold(d, item_id, item_update) ==
    IF item_id \notin DOMAIN d.items THEN [db |-> d, ret |-> None]
    ELSE
    LET old == d.items[item_id]
        set == [old EXCEPT !.description = Patched(@, item_update.description),
                           !.quantity = Patched(@, item_update.quantity),
                           !.unit_price = Patched(@, item_update.unit_price)]
        db_item == [set EXCEPT !.total = ItemTotal(set.quantity, set.unit_price)]
        invoice == get_invoice(d, db_item.invoice_id)
        invoices2 == IF invoice /= None
                     THEN [d.invoices EXCEPT ![invoice].total_amount = @ + db_item.total]
                     ELSE d.invoices
    IN  [db |-> [d EXCEPT !.items = Put(d.items, item_id, db_item), !.invoices = invoices2],
         ret |-> item_id]

crud_update_invoice_item(d, item_id, item_update) ==
    IF item_id \notin DOMAIN d.items THEN [db |-> d, ret |-> None]
    ELSE
    LET old == d.items[item_id]
        old_total == old.total
        set == [old EXCEPT !.description = Patched(@, item_update.description),
                           !.quantity = Patched(@, item_update.quantity),
                           !.unit_price = Patched(@, item_update.unit_price)]
        db_item == [set EXCEPT !.total = ItemTotal(set.quantity, set.unit_price)]
        invoice == get_invoice(d, db_item.invoice_id)
        invoices2 == IF invoice /= None
                     THEN [d.invoices EXCEPT ![invoice].total_amount =
                               @ - old_total + db_item.total]
                     ELSE d.invoices
    IN  [db |-> [d EXCEPT !.items = Put(d.items, item_id, db_item), !.invoices = invoices2],
         ret |-> item_id]

crud_delete_invoice_item_bad(d, item_id) ==
    IF item_id \notin DOMAIN d.items THEN [db |-> d, ret |-> FALSE]
    ELSE [db |-> [d EXCEPT !.items = Drop(d.items, {item_id})], ret |-> TRUE]

crud_delete_invoice_item(d, item_id) ==
    IF item_id \notin DOMAIN d.items THEN [db |-> d, ret |-> FALSE]
    ELSE
    LET db_item == d.items[item_id]
        invoice == get_invoice(d, db_item.invoice_id)
        invoices2 == IF invoice /= None
                     THEN [d.invoices EXCEPT ![invoice].total_amount = @ - db_item.total]
                     ELSE d.invoices
    IN  [db |-> [d EXCEPT !.items = Drop(d.items, {item_id}), !.invoices = invoices2],
         ret |-> TRUE]

(***************************************************************************)
(* crud.py: payments                                                       *)
(***************************************************************************)
\* crud.get_payment
get_payment(d, payment_id) == IF payment_id \in DOMAIN d.payments THEN payment_id ELSE None

\* crud.get_payments: the ids of the rows returned, in row order.
get_payments_unfiltered(d, user_id, invoice_id, skip, limit) ==
    LET q2 == IF invoice_id /= None
              THEN {p \in DOMAIN d.payments : d.payments[p].invoice_id = invoice_id}
              ELSE DOMAIN d.payments
    IN  Window(SortedIds(q2), skip, limit)

get_payments(d, user_id, invoice_id, skip, limit) ==
    LET q1 == IF user_id /= None
              THEN {p \in DOMAIN d.payments : d.payments[p].user_id = user_id}
              ELSE DOMAIN d.payments
        q2 == IF invoice_id /= None
              THEN {p \in q1 : d.payments[p].invoice_id = invoice_id}
              ELSE q1
    IN  Window(SortedIds(q2), skip, limit)

\* sessionmaker(autocommit=False, autoflush=False): a query does not flush the
\* objects added to the session.
autoflush_on == TRUE
autoflush == FALSE

\* The rows the lazy load of invoice.payments returns inside create_payment,
\* where the new payment `id` has been added to the session and not committed.
LoadedPayments(d, invoice_id, id) ==
    IF autoflush THEN InvoicePayments(d, invoice_id) \cup {id}
    ELSE InvoicePayments(d, invoice_id) \ {id}

\* `if total_payments >= invoice.total_amount`
ReachesTotalStrict(total_payments, total_amount) == total_payments > total_amount
ReachesTotal(total_payments, total_amount) == total_payments >= total_amount

\* crud.create_payment
crud_create_payment_allstatuses(d, payment, user_id, id) ==
    LET db_payment == [user_id |-> user_id, invoice_id |-> payment.invoice_id,
                       amount |-> payment.amount, method |-> payment.method,
                       status |-> payment.status]
        added == [d EXCEPT !.payments = Put(d.payments, id, db_payment)]
        invoice == get_invoice(d, payment.invoice_id)
        total_payments ==
            SumOver([p \in DOMAIN added.payments |-> added.payments[p].amount],
                    LoadedPayments(added, payment.invoice_id, id))
            + payment.amount
        paid == /\ invoice /= None
                /\ ReachesTotal(total_payments, d.invoices[invoice].total_amount)
    IN  [db |-> IF paid
                THEN [added EXCEPT !.invoices[invoice].is_paid = TRUE,
                                   !.invoices[invoice].status = "paid"]
                ELSE added,
         ret |-> id]

crud_create_payment_flagonly(d, payment, user_id, id) ==
    LET db_payment == [user_id |-> user_id, invoice_id |-> payment.invoice_id,
                       amount |-> payment.amount, method |-> payment.method,
                       status |-> payment.status]
        added == [d EXCEPT !.payments = Put(d.payments, id, db_payment)]
        invoice == get_invoice(d, payment.invoice_id)
        total_payments ==
            SumOver([p \in DOMAIN added.payments |-> added.payments[p].amount],
                    {p \in LoadedPayments(added, payment.invoice_id, id) :
                        added.payments[p].status = "completed"})
            + payment.amount
        paid == /\ payment.status = "completed"
                /\ invoice /= None
                /\ ReachesTotal(total_payments, d.invoices[invoice].total_amount)
    IN  [db |-> IF paid
                THEN [added EXCEPT !.invoices[invoice].is_paid = TRUE]
                ELSE added,
         ret |-> id]

crud_create_payment(d, payment, user_id, id) ==
    LET db_payment == [user_id |-> user_id, invoice_id |-> payment.invoice_id,
                       amount |-> payment.amount, method |-> payment.method,
                       status |-> payment.status]
        added == [d EXCEPT !.payments = Put(d.payments, id, db_payment)]
        invoice == get_invoice(d, payment.invoice_id)
        total_payments ==
            SumOver([p \in DOMAIN added.payments |-> added.payments[p].amount],
                    {p \in LoadedPayments(added, payment.invoice_id, id) :
                        added.payments[p].status = "completed"})
            + payment.amount
        paid == /\ payment.status = "completed"
                /\ invoice /= None
                /\ ReachesTotal(total_payments, d.invoices[invoice].total_amount)
    IN  [db |-> IF paid
                THEN [added EXCEPT !.invoices[invoice].is_paid = TRUE,
                                   !.invoices[invoice].status = "paid"]
                ELSE added,
         ret |-> id]

\* crud.update_payment
crud_update_payment_recheck(d, payment_id, payment_update) ==
    IF get_payment(d, payment_id) = None THEN [db |-> d, ret |-> None]
    ELSE LET old == d.payments[payment_id]
             db_payment == [old EXCEPT !.amount = Patched(@, payment_update.amount),
                                       !.method = Patched(@, payment_update.method),
                                       !.status = Patched(@, payment_update.status)]
             inv == old.invoice_id
             refunded == db_payment.status = "refunded" /\ inv \in DOMAIN d.invoices
         IN  [db |-> [d EXCEPT !.payments = Put(d.payments, payment_id, db_payment),
                               !.invoices = IF refunded
                                            THEN [@ EXCEPT ![inv].is_paid = FALSE]
                                            ELSE @],
              ret |-> payment_id]

crud_update_payment(d, payment_id, payment_update) ==
    IF get_payment(d, payment_id) = None THEN [db |-> d, ret |-> None]
    ELSE LET old == d.payments[payment_id]
             db_payment == [old EXCEPT !.amount = Patched(@, payment_update.amount),
                                       !.method = Patched(@, payment_update.method),
                                       !.status = Patched(@, payment_update.status)]
         IN  [db |-> [d EXCEPT !.payments = Put(d.payments, payment_id, db_payment)],
              ret |-> payment_id]

\* crud.delete_payment
crud_delete_payment_blind(d, payment_id) ==
    [db |-> [d EXCEPT !.payments = Drop(d.payments, {payment_id})], ret |-> TRUE]
crud_delete_payment(d, payment_id) ==
    IF get_payment(d, payment_id) = None THEN [db |-> d, ret |-> FALSE]
    ELSE [db |-> [d EXCEPT !.payments = Drop(d.payments, {payment_id})], ret |-> TRUE]

(***************************************************************************)
(* crud.py: users and customers (lookups)                                  *)
(***************************************************************************)
\* crud.get_customer
get_customer(d, customer_id) ==
    IF customer_id \in DOMAIN d.customers THEN customer_id ELSE None

\* current_user.is_super_admin, current_user being the stored row of the caller
\* (auth.get_current_user resolves the bearer token to it).
is_super_admin(d, caller) == d.users[caller].is_super_admin

\* `not current_user.is_super_admin and owner_id != current_user.id`
NotPermittedBad(d, caller, owner_id) == FALSE
NotPermitted(d, caller, owner_id) == ~is_super_admin(d, caller) /\ owner_id /= caller

(***************************************************************************)
(* The last request and its answer: the handler, the caller, the id the    *)
(* request addressed, the HTTP status code, the id of the row a create     *)
(* stored (ret), the payload of a create (req), and for the list endpoints *)
(* the window asked for and the ids of the rows returned (body).  The      *)
(* answer to an update carries the update payload (req) as well, for an    *)
(* invoice update once it passed the permission check and for a payment    *)
(* update once it is carried out.                                          *)
(***************************************************************************)
Response(op, caller, id, code) ==
    [op |-> op, caller |-> caller, id |-> id, code |-> code, ret |-> None,
     req |-> <<>>, skip |-> 0, limit |-> 0, body |-> <<>>]

Created(op, caller, id, ret, req) ==
    [Response(op, caller, id, 201) EXCEPT !.ret = ret, !.req = req]

Answer(op, caller, id, code) ==
    /\ resp' = Response(op, caller, id, code)
    /\ UNCHANGED <<db, nextid, sessions>>

(***************************************************************************)
(* routers/invoices.py                                                     *)
(***************************************************************************)
\* POST /invoices/
CreateInvoice(caller, invoice) ==
    IF get_customer(db, invoice.customer_id) = None
    THEN Answer("create_invoice", caller, None, 404)
    ELSE LET r == crud_create_invoice(db, invoice, caller, nextid.invoice, nextid.item)
         IN  /\ db' = r.db
             /\ UNCHANGED sessions
             /\ nextid' = [nextid EXCEPT !.invoice = @ + 1, !.item = @ + Len(invoice.items)]
             /\ resp' = Created("create_invoice", caller, None, r.ret, invoice)

\* POST /invoices/{invoice_id}/items
CreateInvoiceItem(caller, invoice_id, item) ==
    LET db_invoice == get_invoice(db, invoice_id) IN
    IF db_invoice = None
    THEN Answer("create_invoice_item", caller, invoice_id, 404)
    ELSE IF NotPermitted(db, caller, db.invoices[db_invoice].user_id)
    THEN Answer("create_invoice_item", caller, invoice_id, 403)
    ELSE LET r == crud_create_invoice_item(db, item, invoice_id, nextid.item)
         IN  /\ db' = r.db
             /\ UNCHANGED sessions
             /\ nextid' = [nextid EXCEPT !.item = @ + 1]
             /\ resp' = Created("create_invoice_item", caller, invoice_id, r.ret, item)

\* PUT /invoices/items/{item_id}
UpdateInvoiceItem(caller, item_id, item_update) ==
    IF item_id \notin DOMAIN db.items
    THEN Answer("update_invoice_item", caller, item_id, 404)
    ELSE LET db_invoice == get_invoice(db, db.items[item_id].invoice_id) IN
         IF db_invoice = None
         THEN Answer("update_invoice_item", caller, item_id, 500)
         ELSE IF NotPermitted(db, caller, db.invoices[db_invoice].user_id)
         THEN Answer("update_invoice_item", caller, item_id, 403)
         ELSE LET r == crud_update_invoice_item(db, item_id, item_update)
              IN  IF r.ret = None
                  THEN Answer("update_invoice_item", caller, item_id, 404)
                  ELSE /\ db' = r.db
                       /\ resp' = Response("update_invoice_item", caller, item_id, 200)
                       /\ UNCHANGED <<nextid, sessions>>

\* DELETE /invoices/items/{item_id}
DeleteInvoiceItem(caller, item_id) ==
    IF item_id \notin DOMAIN db.items
    THEN Answer("delete_invoice_item", caller, item_id, 404)
    ELSE LET db_invoice == get_invoice(db, db.items[item_id].invoice_id) IN
         IF db_invoice = None
         THEN Answer("delete_invoice_item", caller, item_id, 500)
         ELSE IF NotPermitted(db, caller, db.invoices[db_invoice].user_id)
         THEN Answer("delete_invoice_item", caller, item_id, 403)
         ELSE LET r == crud_delete_invoice_item(db, item_id)
              IN  IF ~r.ret
                  THEN Answer("delete_invoice_item", caller, item_id, 404)
                  ELSE /\ db' = r.db
                       /\ resp' = Response("delete_invoice_item", caller, item_id, 204)
                       /\ UNCHANGED <<nextid, sessions>>

\* The answer of a list endpoint.
Listed(op, caller, id, skip, limit, body) ==
    [Response(op, caller, id, 200) EXCEPT !.skip = skip, !.limit = limit, !.body = body]

\* GET /invoices/
ReadInvoices(caller, skip, limit) ==
    LET user_id == IF is_super_admin(db, caller) THEN None ELSE caller
        invoices == get_invoices(db, user_id, skip, limit)
    IN  /\ resp' = Listed("read_invoices", caller, None, skip, limit, invoices)
        /\ UNCHANGED <<db, nextid, sessions>>

\* GET /invoices/{invoice_id}
ReadInvoice(caller, invoice_id) ==
    LET db_invoice == get_invoice(db, invoice_id) IN
    IF db_invoice = None
    THEN Answer("read_invoice", caller, invoice_id, 404)
    ELSE IF NotPermitted(db, caller, db.invoices[db_invoice].user_id)
    THEN Answer("read_invoice", caller, invoice_id, 403)
    ELSE Answer("read_invoice", caller, invoice_id, 200)

\* PUT /invoices/{invoice_id}
UpdateInvoiceEager(caller, invoice_id, invoice_update) ==
    LET db_invoice == get_invoice(db, invoice_id) IN
    IF db_invoice = None
    THEN Answer("update_invoice", caller, invoice_id, 404)
    ELSE IF NotPermitted(db, caller, db.invoices[db_invoice].user_id)
    THEN Answer("update_invoice", caller, invoice_id, 403)
    ELSE LET r == crud_update_invoice(db, invoice_id,
                                      [invoice_update EXCEPT !.customer_id = {}])
             missing == /\ invoice_update.customer_id /= {}
                        /\ get_customer(db, Patched(None, invoice_update.customer_id)) = None
         IN  /\ db' = r.db
             /\ resp' = [Response("update_invoice", caller, invoice_id,
                                  IF missing THEN 404 ELSE 200)
                            EXCEPT !.req = invoice_update]
             /\ UNCHANGED <<nextid, sessions>>
UpdateInvoice(caller, invoice_id, invoice_update) ==
    LET db_invoice == get_invoice(db, invoice_id) IN
    IF db_invoice = None
    THEN Answer("update_invoice", caller, invoice_id, 404)
    ELSE IF NotPermitted(db, caller, db.invoices[db_invoice].user_id)
    THEN Answer("update_invoice", caller, invoice_id, 403)
    ELSE IF /\ invoice_update.customer_id /= {}
            /\ get_customer(db, Patched(None, invoice_update.customer_id)) = None
    THEN /\ resp' = [Response("update_invoice", caller, invoice_id, 404)
                        EXCEPT !.req = invoice_update]
         /\ UNCHANGED <<db, nextid, sessions>>
    ELSE LET r == crud_update_invoice(db, invoice_id, invoice_update)
         IN  /\ db' = r.db
             /\ resp' = [Response("update_invoice", caller, invoice_id, 200)
                            EXCEPT !.req = invoice_update]
             /\ UNCHANGED <<nextid, sessions>>

\* DELETE /invoices/{invoice_id}
DeleteInvoice(caller, invoice_id) ==
    LET db_invoice == get_invoice(db, invoice_id) IN
    IF db_invoice = None
    THEN Answer("delete_invoice", caller, invoice_id, 404)
    ELSE IF NotPermitted(db, caller, db.invoices[db_invoice].user_id)
    THEN Answer("delete_invoice", caller, invoice_id, 403)
    ELSE LET r == crud_delete_invoice(db, invoice_id)
         IN  IF r.raised THEN Answer("delete_invoice", caller, invoice_id, 500)
             ELSE IF ~r.ret THEN Answer("delete_invoice", caller, invoice_id, 404)
             ELSE /\ db' = r.db
                  /\ resp' = Response("delete_invoice", caller, invoice_id, 204)
                  /\ UNCHANGED <<nextid, sessions>>

(***************************************************************************)
(* routers/payments.py                                                     *)
(***************************************************************************)
\* POST /payments/
CreatePaymentUnchecked(caller, payment) ==
    LET invoice == get_invoice(db, payment.invoice_id) IN
    IF invoice = None
    THEN Answer("create_payment", caller, payment.invoice_id, 404)
    ELSE LET r == crud_create_payment(db, payment, caller, nextid.payment)
         IN  /\ db' = r.db
             /\ UNCHANGED sessions
             /\ nextid' = [nextid EXCEPT !.payment = @ + 1]
             /\ resp' = Created("create_payment", caller, payment.invoice_id, r.ret, payment)
CreatePayment(caller, payment) ==
    LET invoice == get_invoice(db, payment.invoice_id) IN
    IF invoice = None
    THEN Answer("create_payment", caller, payment.invoice_id, 404)
    ELSE IF NotPermitted(db, caller, db.invoices[invoice].user_id)
    THEN Answer("create_payment", caller, payment.invoice_id, 403)
    ELSE LET r == crud_create_payment(db, payment, caller, nextid.payment)
         IN  /\ db' = r.db
             /\ UNCHANGED sessions
             /\ nextid' = [nextid EXCEPT !.payment = @ + 1]
             /\ resp' = Created("create_payment", caller, payment.invoice_id, r.ret, payment)

\* GET /payments/
ReadPayments(caller, invoice_id, skip, limit) ==
    LET user_id == IF is_super_admin(db, caller) THEN None ELSE caller
        payments == get_payments(db, user_id, invoice_id, skip, limit)
    IN  /\ resp' = Listed("read_payments", caller, invoice_id, skip, limit, payments)
        /\ UNCHANGED <<db, nextid, sessions>>

\* GET /payments/{payment_id}
ReadPaymentGuarded(caller, payment_id) ==
    LET db_payment == get_payment(db, payment_id) IN
    IF ~is_super_admin(db, caller)
       /\ (db_payment = None \/ db.payments[db_payment].user_id /= caller)
    THEN Answer("read_payment", caller, payment_id, 403)
    ELSE IF db_payment = None
    THEN Answer("read_payment", caller, payment_id, 404)
    ELSE Answer("read_payment", caller, payment_id, 200)
ReadPayment(caller, payment_id) ==
    LET db_payment == get_payment(db, payment_id) IN
    IF db_payment = None
    THEN Answer("read_payment", caller, payment_id, 404)
    ELSE IF NotPermitted(db, caller, db.payments[db_payment].user_id)
    THEN Answer("read_payment", caller, payment_id, 403)
    ELSE Answer("read_payment", caller, payment_id, 200)

\* PUT /payments/{payment_id}
UpdatePaymentByInvoiceOwner(caller, payment_id, payment_update) ==
    LET db_payment == get_payment(db, payment_id) IN
    IF db_payment = None
    THEN Answer("update_payment", caller, payment_id, 404)
    ELSE IF NotPermitted(db, caller, db.invoices[db.payments[db_payment].invoice_id].user_id)
    THEN Answer("update_payment", caller, payment_id, 403)
    ELSE LET r == crud_update_payment(db, payment_id, payment_update)
         IN  /\ db' = r.db
             /\ resp' = [Response("update_payment", caller, payment_id, 200)
                            EXCEPT !.req = payment_update]
             /\ UNCHANGED <<nextid, sessions>>
UpdatePayment(caller, payment_id, payment_update) ==
    LET db_payment == get_payment(db, payment_id) IN
    IF db_payment = None
    THEN Answer("update_payment", caller, payment_id, 404)
    ELSE IF NotPermitted(db, caller, db.payments[db_payment].user_id)
    THEN Answer("update_payment", caller, payment_id, 403)
    ELSE LET r == crud_update_payment(db, payment_id, payment_update)
         IN  /\ db' = r.db
             /\ resp' = [Response("update_payment", caller, payment_id, 200)
                            EXCEPT !.req = payment_update]
             /\ UNCHANGED <<nextid, sessions>>

\* DELETE /payments/{payment_id}.  The route declares no status_code, so a
\* delete that takes place is answered 200 with a message.
DeletePaymentKeeps(caller, payment_id) ==
    LET db_payment == get_payment(db, payment_id) IN
    IF db_payment = None
    THEN Answer("delete_payment", caller, payment_id, 404)
    ELSE IF NotPermitted(db, caller, db.payments[db_payment].user_id)
    THEN Answer("delete_payment", caller, payment_id, 403)
    ELSE Answer("delete_payment", caller, payment_id, 200)
DeletePayment(caller, payment_id) ==
    LET db_payment == get_payment(db, payment_id) IN
    IF db_payment = None
    THEN Answer("delete_payment", caller, payment_id, 404)
    ELSE IF NotPermitted(db, caller, db.payments[db_payment].user_id)
    THEN Answer("delete_payment", caller, payment_id, 403)
    ELSE LET r == crud_delete_payment(db, payment_id)
         IN  IF ~r.ret THEN Answer("delete_payment", caller, payment_id, 404)
             ELSE /\ db' = r.db
                  /\ resp' = Response("delete_payment", caller, payment_id, 200)
                  /\ UNCHANGED <<nextid, sessions>>

(***************************************************************************)
(* The store after construction, and the populations the specifications    *)
(* start from: users registered and customers created, no invoice yet.     *)
(***************************************************************************)
EmptyTable == [k \in {} |-> 0]

\* A row of users.  is_super_admin is the truth value the code reads
\* (`not current_user.is_super_admin`); the column is nullable, and nulls
\* names the nullable columns of the row that hold NULL (NULL reads as false).
User(name, email, admin) ==
    [name |-> name, email |-> email, is_super_admin |-> admin, nulls |-> {}]

Customer(name) == [name |-> name, email |-> "c@x", phone |-> "", type |-> "customer"]

NoResponse == Response("none", None, None, 0)

\* No request is being handled by a session of its own: the handlers above
\* run a request from its first query to its commit in one step.
NoSessions == <<>>

FirstIds == [user |-> 1, customer |-> 1, invoice |-> 1, item |-> 1, payment |-> 1]

\* All lists of at most MaxItems item specifications drawn from S.
ItemLists(S) == UNION {[1..n -> S] : n \in 0..MaxItems}

\* The accounting specification varies quantities and prices, not the text
\* of descriptions.
AcctItemSpecs == {it \in ItemSpecs : it.description = "a"}
AcctItemUpdates == {u \in ItemUpdates : u.description \subseteq {"a"}}

(***************************************************************************)
(* SpecAcct: the accounting operations (create invoice, add / update /     *)
(* delete item) requested by one user for one customer.                    *)
(***************************************************************************)
InitAcct ==
    /\ db = [users |-> (1 :> User("u1", "u1@x", FALSE)),
             customers |-> (1 :> Customer("c1")),
             invoices |-> EmptyTable, items |-> EmptyTable, payments |-> EmptyTable]
    /\ nextid = [FirstIds EXCEPT !.user = 2, !.customer = 2]
    /\ resp = NoResponse
    /\ sessions = NoSessions

\* The guards that keep the id counters within the bounds.
RoomForInvoice(n_items) ==
    nextid.invoice <= MaxInvoices /\ nextid.item + n_items - 1 <= MaxItems

RoomForItem == nextid.item <= MaxItems

RoomForPayment == nextid.payment <= MaxPayments

NextAcct ==
    \/ \E c \in DOMAIN db.users, its \in ItemLists(AcctItemSpecs) :
          /\ RoomForInvoice(Len(its))
          /\ CreateInvoice(c, [customer_id |-> 1, status |-> "draft", items |-> its])
    \/ \E c \in DOMAIN db.users, i \in InvoiceIds, it \in AcctItemSpecs :
          RoomForItem /\ CreateInvoiceItem(c, i, it)
    \/ \E c \in DOMAIN db.users, i \in ItemIds, u \in AcctItemUpdates :
          UpdateInvoiceItem(c, i, u)
    \/ \E c \in DOMAIN db.users, i \in ItemIds : DeleteInvoiceItem(c, i)

SpecAcct == InitAcct /\ [][NextAcct]_vars

(***************************************************************************)
(* SpecPay: payments recorded, updated and deleted by the owner of two     *)
(* invoices, of total 6 (one item) and of total 5 (two items).             *)
(***************************************************************************)
Item(description, quantity, unit_price) ==
    [description |-> description, quantity |-> quantity, unit_price |-> unit_price]

InitPay ==
    LET d0 == [users |-> (1 :> User("u1", "u1@x", FALSE)),
               customers |-> (1 :> Customer("c1")),
               invoices |-> EmptyTable, items |-> EmptyTable, payments |-> EmptyTable]
        d1 == crud_create_invoice(d0, [customer_id |-> 1, status |-> "sent",
                                       items |-> <<Item("a", 2, 3)>>], 1, 1, 1).db
        d2 == crud_create_invoice(d1, [customer_id |-> 1, status |-> "draft",
                                       items |-> <<Item("a", 1, 2), Item("b", 1, 3)>>],
                                  1, 2, 2).db
    IN  /\ db = d2
        /\ nextid = [FirstIds EXCEPT !.user = 2, !.customer = 2, !.invoice = 3, !.item = 4]
        /\ resp = NoResponse
        /\ sessions = NoSessions

NextPay ==
    \/ \E c \in DOMAIN db.users,
          p \in PaymentSpecs(1..3, Amounts, {"cash"}, PaymentStatus) :
          RoomForPayment /\ CreatePayment(c, p)
    \/ \E c \in DOMAIN db.users, i \in PaymentIds,
          u \in PaymentUpdates(Amounts, {"cash"}, {"completed", "refunded"}) :
          UpdatePayment(c, i, u)
    \/ \E c \in DOMAIN db.users, i \in PaymentIds : DeletePayment(c, i)

SpecPay == InitPay /\ [][NextPay]_vars

(***************************************************************************)
(* SpecMut: every handler that changes invoices, items or payments,        *)
(* requested by one user, with at most MaxRows rows created per table.     *)
(***************************************************************************)
InitMut ==
    /\ db = [users |-> (1 :> User("u1", "u1@x", FALSE)),
             customers |-> (1 :> Customer("c1")),
             invoices |-> EmptyTable, items |-> EmptyTable, payments |-> EmptyTable]
    /\ nextid = [FirstIds EXCEPT !.user = 2, !.customer = 2]
    /\ resp = NoResponse
    /\ sessions = NoSessions

MutIds == 1..(MaxRows + 1)

NextMut ==
    \/ \E c \in DOMAIN db.users, st \in {"draft", "paid"},
          its \in {<<>>, <<Item("a", 2, 3)>>} :
          /\ nextid.invoice <= MaxRows
          /\ nextid.item + Len(its) - 1 <= MaxRows
          /\ CreateInvoice(c, [customer_id |-> 1, status |-> st, items |-> its])
    \/ \E c \in DOMAIN db.users, i \in MutIds,
          u \in InvoiceUpdates({1, 2}, {"sent", "paid"}) :
          UpdateInvoice(c, i, u)
    \/ \E c \in DOMAIN db.users, i \in MutIds : DeleteInvoice(c, i)
    \/ \E c \in DOMAIN db.users, i \in MutIds :
          nextid.item <= MaxRows /\ CreateInvoiceItem(c, i, Item("a", 2, 3))
    \/ \E c \in DOMAIN db.users, i \in MutIds,
          u \in [description : {{}}, quantity : Opt({1}), unit_price : {{}}] :
          UpdateInvoiceItem(c, i, u)
    \/ \E c \in DOMAIN db.users, i \in MutIds : DeleteInvoiceItem(c, i)
    \/ \E c \in DOMAIN db.users,
          p \in PaymentSpecs(MutIds, {3, 6}, {"cash"}, {"pending", "completed"}) :
          nextid.payment <= MaxRows /\ CreatePayment(c, p)
    \/ \E c \in DOMAIN db.users, i \in MutIds,
          u \in PaymentUpdates({6}, {"cash"}, {"completed", "refunded"}) :
          UpdatePayment(c, i, u)
    \/ \E c \in DOMAIN db.users, i \in MutIds : DeletePayment(c, i)

SpecMut == InitMut /\ [][NextMut]_vars

(***************************************************************************)
(* SpecList: the list endpoints, called by two regular users and a         *)
(* super-admin, over invoices and payments created by the regular users.   *)
(***************************************************************************)
InitList ==
    /\ db = [users |-> (1 :> User("u1", "u1@x", FALSE) @@ 2 :> User("u2", "u2@x", FALSE)
                          @@ 3 :> User("root", "root@x", TRUE)),
             customers |-> (1 :> Customer("c1")),
             invoices |-> EmptyTable, items |-> EmptyTable, payments |-> EmptyTable]
    /\ nextid = [FirstIds EXCEPT !.user = 4, !.customer = 2]
    /\ resp = NoResponse
    /\ sessions = NoSessions

NextList ==
    \/ \E c \in {1, 2} :
          /\ RoomForInvoice(0)
          /\ CreateInvoice(c, [customer_id |-> 1, status |-> "draft", items |-> <<>>])
    \/ \E c \in {1, 2}, p \in PaymentSpecs(InvoiceIds, {3}, {"cash"}, {"pending"}) :
          RoomForPayment /\ CreatePayment(c, p)
    \/ \E c \in DOMAIN db.users, skip \in 0..MaxWindow, limit \in 0..MaxWindow :
          ReadInvoices(c, skip, limit)
    \/ \E c \in DOMAIN db.users, i \in {None, 1}, skip \in 0..MaxWindow,
          limit \in 0..MaxWindow :
          ReadPayments(c, i, skip, limit)

SpecList == InitList /\ [][NextList]_vars

(***************************************************************************)
(* Properties of the accounting operations.                                *)
(***************************************************************************)
\* The sum of the stored totals of the items of an invoice.
ItemsSum(d, invoice_id) ==
    SumOver([i \in DOMAIN d.items |-> d.items[i].total], InvoiceItems(d, invoice_id))

\* The answer of a handler that carried its operation out.
Done(r, op, code) == r.op = op /\ r.code = code

\* C1: in every state reachable by create-invoice, add-item, update-item and
\* delete-item requests, each stored invoice's total_amount equals the sum of
\* the totals of the items stored for it (0 when it has none).
C1_TotalIsSumOfItems ==
    \A inv \in DOMAIN db.invoices : db.invoices[inv].total_amount = ItemsSum(db, inv)

\* C1 witness: an item was just deleted from an invoice that keeps another
\* item and a non-zero total.
C1_Witness ==
    /\ Done(resp, "delete_invoice_item", 204)
    /\ \E inv \in DOMAIN db.invoices :
          /\ InvoiceItems(db, inv) /= {}
          /\ db.invoices[inv].total_amount < 0

\* C2: the invoice create_invoice returns has total_amount equal to the sum of
\* quantity x unit_price over the supplied items, owns exactly one stored item
\* per supplied specification, and has the caller as user_id.
C2_CreateInvoice ==
    Done(resp, "create_invoice", 201) =>
        LET its == resp.req.items
            own == SortedIds(InvoiceItems(db, resp.ret))
        IN  /\ resp.ret \in DOMAIN db.invoices
            /\ db.invoices[resp.ret].user_id = resp.caller
            /\ db.invoices[resp.ret].total_amount =
                   SumSeq([k \in 1..Len(its) |-> its[k].quantity * its[k].unit_price])
            /\ Len(own) = Len(its)
            /\ \A k \in 1..Len(its) :
                  /\ db.items[own[k]].description = its[k].description
                  /\ db.items[own[k]].quantity = its[k].quantity
                  /\ db.items[own[k]].unit_price = its[k].unit_price

\* C2 witness: an invoice was just created from two items of different totals.
C2_Witness ==
    /\ Done(resp, "create_invoice", 201)
    /\ Len(resp.req.items) = 2
    /\ resp.req.items[1].quantity * resp.req.items[1].unit_price = 6
    /\ resp.req.items[2].quantity * resp.req.items[2].unit_price = -3

\* C2 witness of the empty list: an invoice was just created without items.
C2_WitnessEmpty == Done(resp, "create_invoice", 201) /\ resp.req.items = <<>>

\* C3: adding an item (q, p) to an existing invoice stores a new item with
\* total q x p for it and raises that invoice's total_amount by exactly q x p;
\* every other item and every other invoice's total_amount is unchanged.
C3_AddItem ==
    [][Done(resp', "create_invoice_item", 201) =>
        LET inv == resp'.id
            new == resp'.ret
            t == resp'.req.quantity * resp'.req.unit_price
        IN  /\ inv \in DOMAIN db.invoices
            /\ new \notin DOMAIN db.items
            /\ DOMAIN db'.items = DOMAIN db.items \cup {new}
            /\ db'.items[new].invoice_id = inv
            /\ db'.items[new].quantity = resp'.req.quantity
            /\ db'.items[new].unit_price = resp'.req.unit_price
            /\ db'.items[new].total = t
            /\ db'.invoices[inv].total_amount = db.invoices[inv].total_amount + t
            /\ \A i \in DOMAIN db.items : db'.items[i] = db.items[i]
            /\ DOMAIN db'.invoices = DOMAIN db.invoices
            /\ \A o \in DOMAIN db.invoices \ {inv} :
                  db'.invoices[o].total_amount = db.invoices[o].total_amount
    ]_vars

\* C3 witness: an item of total 6 was just added to an invoice that had items
\* already, while another invoice is stored.
C3_Witness ==
    /\ Done(resp, "create_invoice_item", 201)
    /\ resp.req.quantity * resp.req.unit_price = 6
    /\ Cardinality(InvoiceItems(db, resp.id)) >= 2
    /\ Cardinality(DOMAIN db.invoices) >= 2

\* C4: updating a stored item changes its invoice's total_amount by exactly
\* (new item total - old item total), the new total being the resulting
\* quantity x the resulting unit_price; the other items are unchanged; updating
\* an id that is not stored is answered NotFound and changes nothing.
C4_UpdateItem ==
    [][resp'.op = "update_invoice_item" =>
        LET i == resp'.id IN
        IF i \notin DOMAIN db.items
        THEN resp'.code = 404 /\ db' = db
        ELSE LET inv == db.items[i].invoice_id
                 new_total == db'.items[i].quantity * db'.items[i].unit_price
             IN  /\ resp'.caller = db.invoices[inv].user_id => resp'.code = 200
                 /\ resp'.code = 200 =>
                     /\ DOMAIN db'.items = DOMAIN db.items
                     /\ db'.items[i].invoice_id = inv
                     /\ db'.invoices[inv].total_amount - db.invoices[inv].total_amount
                           = new_total - db.items[i].total
                     /\ \A j \in DOMAIN db.items \ {i} : db'.items[j] = db.items[j]
    ]_vars

\* C4 witness: an item was just updated to the total 6 in an invoice holding
\* another item, whose total_amount is not 6.
C4_Witness ==
    /\ Done(resp, "update_invoice_item", 200)
    /\ db.items[resp.id].total = 6
    /\ Cardinality(InvoiceItems(db, db.items[resp.id].invoice_id)) >= 2
    /\ db.invoices[db.items[resp.id].invoice_id].total_amount /= 6

\* C4 witness of NotFound: an update named an id that is not stored.
C4_WitnessNotFound == Done(resp, "update_invoice_item", 404)

\* C5: deleting a stored item removes it and lowers its invoice's total_amount
\* by exactly the item's stored total; deleting an id that is not stored is
\* answered NotFound and changes nothing.
C5_DeleteItem ==
    [][resp'.op = "delete_invoice_item" =>
        LET i == resp'.id IN
        IF i \notin DOMAIN db.items
        THEN resp'.code = 404 /\ db' = db
        ELSE LET inv == db.items[i].invoice_id
             IN  /\ resp'.caller = db.invoices[inv].user_id => resp'.code = 204
                 /\ resp'.code = 204 =>
                     /\ DOMAIN db'.items = DOMAIN db.items \ {i}
                     /\ db'.invoices[inv].total_amount
                           = db.invoices[inv].total_amount - db.items[i].total
                     /\ \A j \in DOMAIN db'.items : db'.items[j] = db.items[j]
    ]_vars

\* C5 witness: an item was just deleted from an invoice that keeps an item
\* and a positive total.
C5_Witness ==
    /\ Done(resp, "delete_invoice_item", 204)
    /\ resp.id \notin DOMAIN db.items
    /\ \E inv \in DOMAIN db.invoices :
          InvoiceItems(db, inv) /= {} /\ db.invoices[inv].total_amount > 0

\* C5 witness of NotFound: a delete named an id that was deleted before.
C5_WitnessNotFound ==
    Done(resp, "delete_invoice_item", 404) /\ resp.id < nextid.item

\* C6: every stored item satisfies total = quantity x unit_price, whether it
\* was created with its invoice, added later or changed by a partial update.
C6_ItemTotal ==
    \A i \in DOMAIN db.items : db.items[i].total = db.items[i].quantity * db.items[i].unit_price

\* C6 witness: an item was just updated and its total is -3.
C6_Witness ==
    /\ Done(resp, "update_invoice_item", 200)
    /\ db.items[resp.id].total = -3

(***************************************************************************)
(* Properties of payments and of the paid state.                           *)
(***************************************************************************)
\* The sum of the amounts of the completed payments stored for an invoice.
CompletedSum(d, invoice_id) ==
    SumOver([p \in DOMAIN d.payments |-> d.payments[p].amount],
            {p \in DOMAIN d.payments : /\ d.payments[p].invoice_id = invoice_id
                                       /\ d.payments[p].status = "completed"})

\* C7: recording a completed payment sets is_paid and status paid when the sum
\* of the invoice's completed payments, the new one included, is >= its
\* total_amount; a completed payment below that, and a payment recorded as
\* pending, failed or refunded, leaves is_paid and status as they were.
C7_RecordPayment ==
    [][Done(resp', "create_payment", 201) =>
        LET p == resp'.req
            inv == p.invoice_id
            new == resp'.ret
        IN  /\ new \notin DOMAIN db.payments
            /\ DOMAIN db'.payments = DOMAIN db.payments \cup {new}
            /\ db'.payments[new].invoice_id = inv
            /\ db'.payments[new].amount = p.amount
            /\ db'.payments[new].status = p.status
            /\ IF /\ p.status = "completed"
                  /\ CompletedSum(db', inv) >= db.invoices[inv].total_amount
               THEN /\ db'.invoices[inv].is_paid
                    /\ db'.invoices[inv].status = "paid"
               ELSE /\ db'.invoices[inv].is_paid = db.invoices[inv].is_paid
                    /\ db'.invoices[inv].status = db.invoices[inv].status
    ]_vars

\* C7 witness: a completed payment smaller than the total was just recorded
\* and, with an earlier completed payment, made the invoice paid.
C7_Witness ==
    /\ Done(resp, "create_payment", 201)
    /\ resp.req.status = "completed"
    /\ resp.req.amount < db.invoices[resp.id].total_amount
    /\ CompletedSum(db, resp.id) = db.invoices[resp.id].total_amount
    /\ db.invoices[resp.id].is_paid
    /\ db.invoices[resp.id].status = "paid"

\* C7 witness below the threshold: a completed payment was just recorded and
\* the invoice is not paid.
C7_WitnessBelow ==
    /\ Done(resp, "create_payment", 201)
    /\ resp.req.status = "completed"
    /\ CompletedSum(db, resp.id) < db.invoices[resp.id].total_amount
    /\ ~db.invoices[resp.id].is_paid

\* is_paid of an invoice is true after the step and was not before it.
BecamePaid(inv) ==
    /\ db'.invoices[inv].is_paid
    /\ inv \in DOMAIN db.invoices => ~db.invoices[inv].is_paid

\* The status of an invoice is paid after the step and was not before it.
BecameStatusPaid(inv) ==
    /\ db'.invoices[inv].status = "paid"
    /\ inv \in DOMAIN db.invoices => db.invoices[inv].status /= "paid"

\* The step records a new completed payment for the invoice with which the
\* sum of its completed payments reaches or exceeds its total_amount.
ThresholdStep(inv) ==
    /\ Done(resp', "create_payment", 201)
    /\ resp'.req.invoice_id = inv
    /\ resp'.req.status = "completed"
    /\ CompletedSum(db', inv) >= db.invoices[inv].total_amount

\* C8 as claimed: is_paid becomes true, and status becomes paid, only in a
\* step that records a new completed payment reaching the total.
C8_OnlyPaymentsMarkPaid ==
    [][\A inv \in DOMAIN db'.invoices :
          BecamePaid(inv) \/ BecameStatusPaid(inv) => ThresholdStep(inv)
    ]_vars

\* C8 as amended: is_paid becomes true only in such a step or in an invoice
\* update whose payload supplies is_paid = true; status becomes paid only in
\* such a step, in an invoice update whose payload supplies status = paid, or
\* at the creation of the invoice with status paid.  Item mutations, payment
\* updates and deletions never do either.
C8_PaidOnlyByPaymentOrInvoiceRequest ==
    [][\A inv \in DOMAIN db'.invoices :
          /\ BecamePaid(inv) =>
                \/ ThresholdStep(inv)
                \/ /\ Done(resp', "update_invoice", 200)
                   /\ resp'.id = inv
                   /\ resp'.req.is_paid = {TRUE}
          /\ BecameStatusPaid(inv) =>
                \/ ThresholdStep(inv)
                \/ /\ Done(resp', "update_invoice", 200)
                   /\ resp'.id = inv
                   /\ resp'.req.status = {"paid"}
                \/ /\ Done(resp', "create_invoice", 201)
                   /\ resp'.ret = inv
                   /\ resp'.req.status = "paid"
    ]_vars

\* C8 witness: an invoice update that supplied is_paid = true was just carried
\* out on an invoice for which no payment was ever recorded, and the invoice
\* is marked paid.
C8_Witness ==
    /\ Done(resp, "update_invoice", 200)
    /\ resp.req.is_paid = {TRUE}
    /\ db.invoices[resp.id].is_paid
    /\ db.invoices[resp.id].total_amount > 0
    /\ nextid.payment = 1

\* C9: updating a payment (amount, method or status) and deleting a payment
\* leave every invoice's is_paid, status and total_amount unchanged.
C9_PaymentChangeLeavesInvoice ==
    [][resp'.op \in {"update_payment", "delete_payment"} =>
        /\ db'.invoices = db.invoices
        /\ resp'.id \in DOMAIN db.payments /\ resp'.caller = db.payments[resp'.id].user_id
              => resp'.code = 200
        /\ Done(resp', "delete_payment", 200) =>
              DOMAIN db'.payments = DOMAIN db.payments \ {resp'.id}
        /\ Done(resp', "update_payment", 200) =>
              /\ DOMAIN db'.payments = DOMAIN db.payments
              /\ db'.payments[resp'.id].invoice_id = db.payments[resp'.id].invoice_id
    ]_vars

\* C9 witness: a payment was just updated to refunded, the completed payments
\* of its invoice no longer reach the total, and the invoice is still paid.
C9_Witness ==
    /\ Done(resp, "update_payment", 200)
    /\ db.payments[resp.id].status = "refunded"
    /\ LET inv == db.payments[resp.id].invoice_id
       IN  /\ db.invoices[inv].is_paid
           /\ db.invoices[inv].status = "paid"
           /\ CompletedSum(db, inv) < db.invoices[inv].total_amount

\* C9 witness of pending -> completed: a payment was just updated to
\* completed, the completed payments reach the total, the invoice is unpaid.
C9_WitnessCompleted ==
    /\ Done(resp, "update_payment", 200)
    /\ db.payments[resp.id].status = "completed"
    /\ LET inv == db.payments[resp.id].invoice_id
       IN  /\ ~db.invoices[inv].is_paid
           /\ CompletedSum(db, inv) >= db.invoices[inv].total_amount

\* C9 witness of a deletion: the only completed payment of a paid invoice was
\* just deleted.
C9_WitnessDeleted ==
    /\ Done(resp, "delete_payment", 200)
    /\ \E inv \in DOMAIN db.invoices :
          /\ db.invoices[inv].is_paid
          /\ InvoicePayments(db, inv) = {}

(***************************************************************************)
(* Properties of the list endpoints.                                       *)
(***************************************************************************)
\* The body lists exactly the rows of `visible` that lie in the window: in
\* row order, the rows after the first `skip` ones, `limit` of them at most.
IsWindowOf(body, visible, skip, limit) ==
    LET rank(i) == Cardinality({j \in visible : j <= i})
    IN  /\ \A k \in 1..Len(body) : body[k] \in visible
        /\ \A j, k \in 1..Len(body) : j < k => body[j] < body[k]
        /\ \A i \in visible :
              (\E k \in 1..Len(body) : body[k] = i)
                 <=> (skip < rank(i) /\ rank(i) <= skip + limit)

\* C10: listing invoices (payments) as a regular user u returns only rows whose
\* user_id is u, all of them within the skip/limit window; listing as a
\* super-admin returns the rows of every user within the window.
C10_Listing ==
    /\ resp.op = "read_invoices" =>
          LET mine == {i \in DOMAIN db.invoices : db.invoices[i].user_id = resp.caller}
          IN  /\ resp.code = 200
              /\ IF db.users[resp.caller].is_super_admin
                 THEN IsWindowOf(resp.body, DOMAIN db.invoices, resp.skip, resp.limit)
                 ELSE IsWindowOf(resp.body, mine, resp.skip, resp.limit)
    /\ resp.op = "read_payments" =>
          LET asked == {p \in DOMAIN db.payments :
                           resp.id /= None => db.payments[p].invoice_id = resp.id}
              mine == {p \in asked : db.payments[p].user_id = resp.caller}
          IN  /\ resp.code = 200
              /\ IF db.users[resp.caller].is_super_admin
                 THEN IsWindowOf(resp.body, asked, resp.skip, resp.limit)
                 ELSE IsWindowOf(resp.body, mine, resp.skip, resp.limit)

\* C10 witness: a regular user just listed invoices with a window wide enough
\* for every stored invoice and got their own one only, another user's
\* invoice being stored before it.
C10_Witness ==
    /\ resp.op = "read_invoices"
    /\ ~db.users[resp.caller].is_super_admin
    /\ resp.skip = 0
    /\ resp.limit = 2
    /\ resp.body = <<2>>
    /\ DOMAIN db.invoices = {1, 2}
    /\ db.invoices[1].user_id /= resp.caller
    /\ ~db.users[db.invoices[1].user_id].is_super_admin

\* C10 witness of a super-admin: a super-admin just listed payments recorded
\* by two other users and got both.
C10_WitnessAdmin ==
    /\ resp.op = "read_payments"
    /\ db.users[resp.caller].is_super_admin
    /\ Len(resp.body) = 2
    /\ db.payments[resp.body[1]].user_id /= db.payments[resp.body[2]].user_id
    /\ \A k \in 1..2 : db.payments[resp.body[k]].user_id /= resp.caller

(***************************************************************************)
(* SpecPerm: the handlers of one invoice, its items and its payments,      *)
(* called by the invoice's owner (user 1), by another regular user (2) and *)
(* by a super-admin (3).  The invoice starts without items.                *)
(***************************************************************************)
InitPerm ==
    LET d0 == [users |-> (1 :> User("u1", "u1@x", FALSE) @@ 2 :> User("u2", "u2@x", FALSE)
                            @@ 3 :> User("root", "root@x", TRUE)),
               customers |-> (1 :> Customer("c1")),
               invoices |-> EmptyTable, items |-> EmptyTable, payments |-> EmptyTable]
        d1 == crud_create_invoice(d0, [customer_id |-> 1, status |-> "draft",
                                       items |-> <<>>], 1, 1, 1).db
    IN  /\ db = d1
        /\ nextid = [FirstIds EXCEPT !.user = 4, !.customer = 2, !.invoice = 2]
        /\ resp = NoResponse
        /\ sessions = NoSessions

PermIds == 1..(MaxRows + 1)

NextPerm ==
    \/ \E c \in DOMAIN db.users, i \in PermIds : ReadInvoice(c, i)
    \/ \E c \in DOMAIN db.users, i \in PermIds,
          u \in [customer_id : {{}, {2}}, status : {{"sent"}}, is_paid : {{}}] :
          UpdateInvoice(c, i, u)
    \/ \E c \in DOMAIN db.users, i \in PermIds : DeleteInvoice(c, i)
    \/ \E c \in DOMAIN db.users, i \in PermIds :
          nextid.item <= MaxRows /\ CreateInvoiceItem(c, i, Item("b", 2, 3))
    \/ \E c \in DOMAIN db.users, i \in PermIds,
          u \in [description : {{}}, quantity : {{1}}, unit_price : {{}}] :
          UpdateInvoiceItem(c, i, u)
    \/ \E c \in DOMAIN db.users, i \in PermIds : DeleteInvoiceItem(c, i)
    \/ \E c \in DOMAIN db.users,
          p \in PaymentSpecs(PermIds, {3}, {"cash"}, {"pending"}) :
          nextid.payment <= MaxRows /\ CreatePayment(c, p)
    \/ \E c \in DOMAIN db.users, i \in PermIds : ReadPayment(c, i)
    \/ \E c \in DOMAIN db.users, i \in PermIds,
          u \in PaymentUpdates({}, {}, {"completed"}) :
          UpdatePayment(c, i, u)
    \/ \E c \in DOMAIN db.users, i \in PermIds : DeletePayment(c, i)

SpecPerm == InitPerm /\ [][NextPerm]_vars

(***************************************************************************)
(* Properties of the authorization checks.                                 *)
(***************************************************************************)
InvoiceOps == {"read_invoice", "update_invoice", "delete_invoice", "create_invoice_item"}

ItemOps == {"update_invoice_item", "delete_invoice_item"}

\* The invoice a request of the answer r addressed, directly or through one of
\* its items, as stored before the step; None when there is none.
TargetInvoice(r) ==
    IF r.op \in InvoiceOps /\ r.id \in DOMAIN db.invoices THEN r.id
    ELSE IF r.op \in ItemOps /\ r.id \in DOMAIN db.items
              /\ db.items[r.id].invoice_id \in DOMAIN db.invoices
    THEN db.items[r.id].invoice_id
    ELSE None

\* The caller of the answer r is neither a super-admin nor the user `owner`.
Stranger(r, owner) == ~db.users[r.caller].is_super_admin /\ r.caller /= owner

\* The step carried the invoice or item request out: it answered with the
\* success code of the handler and the store shows the effect.
CarriedOut ==
    LET op == resp'.op
        id == resp'.id
    IN  /\ op = "read_invoice" => resp'.code = 200 /\ db' = db
        /\ op = "update_invoice" =>
              /\ resp'.code = 200
              /\ db'.invoices[id].status = Patched(db.invoices[id].status, resp'.req.status)
              /\ db'.invoices[id].customer_id =
                    Patched(db.invoices[id].customer_id, resp'.req.customer_id)
        /\ op = "delete_invoice" => resp'.code = 204 /\ id \notin DOMAIN db'.invoices
        /\ op = "create_invoice_item" =>
              /\ resp'.code = 201
              /\ resp'.ret \in DOMAIN db'.items \ DOMAIN db.items
              /\ db'.items[resp'.ret].invoice_id = id
        /\ op = "update_invoice_item" =>
              /\ resp'.code = 200
              /\ id \in DOMAIN db'.items
              /\ db'.items[id].total = db'.items[id].quantity * db'.items[id].unit_price
        /\ op = "delete_invoice_item" => resp'.code = 204 /\ id \notin DOMAIN db'.items

MissingCustomer(r) ==
    /\ r.op = "update_invoice"
    /\ r.req.customer_id /= {}
    /\ r.req.customer_id \cap DOMAIN db.customers = {}

C11_WitnessAdmin ==
    /\ Done(resp, "update_invoice_item", 200)
    /\ db.users[resp.caller].is_super_admin
    /\ db.items[resp.id].quantity = 1
    /\ db.invoices[db.items[resp.id].invoice_id].user_id /= resp.caller

\* C11 witness of the exception: the owner's update named a customer that is
\* not stored and was answered NotFound.
C11_WitnessMissingCustomer ==
    /\ Done(resp, "update_invoice", 404)
    /\ resp.id \in DOMAIN db.invoices
    /\ db.invoices[resp.id].user_id = resp.caller
    /\ resp.req.customer_id = {2}

PaymentOps == {"read_payment", "update_payment", "delete_payment"}

\* C12: on an existing payment, read, update and delete are carried out when
\* the caller is a super-admin or the user who recorded the payment, and are
\* answered Forbidden, with the store unchanged, for every other caller, the
\* owner of the invoice the payment refers to included.
C12_PaymentPermission ==
    [][resp'.op \in PaymentOps /\ resp'.id \in DOMAIN db.payments =>
          LET id == resp'.id IN
          IF Stranger(resp', db.payments[id].user_id)
          THEN resp'.code = 403 /\ db' = db
          ELSE /\ resp'.code = 200
               /\ resp'.op = "read_payment" => db' = db
               /\ resp'.op = "update_payment" =>
                     /\ DOMAIN db'.payments = DOMAIN db.payments
                     /\ db'.payments[id].user_id = db.payments[id].user_id
                     /\ db'.payments[id].invoice_id = db.payments[id].invoice_id
               /\ resp'.op = "delete_payment" =>
                     DOMAIN db'.payments = DOMAIN db.payments \ {id}
    ]_vars

\* C12 witness: the owner of an invoice was just refused the update of a
\* payment that a super-admin recorded for that invoice.
C12_Witness ==
    /\ Done(resp, "update_payment", 403)
    /\ resp.id \in DOMAIN db.payments
    /\ db.invoices[db.payments[resp.id].invoice_id].user_id = resp.caller
    /\ db.payments[resp.id].user_id /= resp.caller
    /\ db.payments[resp.id].status = "pending"

\* C12 witness of the recorder: the user who recorded a payment just deleted
\* it.
C12_WitnessRecorder ==
    /\ Done(resp, "delete_payment", 200)
    /\ ~db.users[resp.caller].is_super_admin
    /\ resp.id \notin DOMAIN db.payments
    /\ nextid.payment > resp.id

\* C13: a create-payment request naming an invoice that is not stored is
\* answered NotFound for every caller; naming a stored invoice owned by
\* another user it is answered Forbidden for a non-super-admin caller; in both
\* cases no payment is stored.  Otherwise exactly one payment is stored, with
\* the caller as user_id and the named invoice as invoice_id.
C13_CreatePayment ==
    [][resp'.op = "create_payment" =>
          LET inv == resp'.id IN
          IF inv \notin DOMAIN db.invoices
          THEN resp'.code = 404 /\ db' = db
          ELSE IF Stranger(resp', db.invoices[inv].user_id)
          THEN resp'.code = 403 /\ db' = db
          ELSE /\ resp'.code = 201
               /\ resp'.ret \notin DOMAIN db.payments
               /\ DOMAIN db'.payments = DOMAIN db.payments \cup {resp'.ret}
               /\ db'.payments[resp'.ret].user_id = resp'.caller
               /\ db'.payments[resp'.ret].invoice_id = inv
               /\ \A p \in DOMAIN db.payments : db'.payments[p] = db.payments[p]
    ]_vars

\* C13 witness: a super-admin's create-payment request named an invoice that
\* is not stored and was answered NotFound; no payment is stored.
C13_Witness ==
    /\ Done(resp, "create_payment", 404)
    /\ db.users[resp.caller].is_super_admin
    /\ resp.id \notin DOMAIN db.invoices
    /\ DOMAIN db.payments = {}

\* C13 witness of Forbidden: a regular user's create-payment request named
\* another user's invoice and was answered Forbidden; no payment is stored.
C13_WitnessForbidden ==
    /\ Done(resp, "create_payment", 403)
    /\ resp.id \in DOMAIN db.invoices
    /\ db.invoices[resp.id].user_id /= resp.caller
    /\ DOMAIN db.payments = {}

\* C13 witness of a stored payment: a super-admin just recorded a payment for
\* another user's invoice.
C13_WitnessStored ==
    /\ Done(resp, "create_payment", 201)
    /\ db.users[resp.caller].is_super_admin
    /\ db.payments[resp.ret].user_id = resp.caller
    /\ db.invoices[db.payments[resp.ret].invoice_id].user_id /= resp.caller

(***************************************************************************)
(* crud.py: users and customers                                            *)
(***************************************************************************)
Names == {"n1", "n2"}
Emails == {"u1@x", "u2@x", "new@x"}

\* schemas.UserCreate (the password is not modelled)
UserSpecs(names, emails) == [name : names, email : emails, is_super_admin : BOOLEAN]

\* schemas.UserUpdate.  A field supplied as JSON null is in `nulls`: it is set
\* (exclude_unset keeps it) and its value is None.
UserUpdates(names, emails, nulls) ==
    {u \in [name : Opt(names), email : Opt(emails), is_super_admin : Opt(BOOLEAN),
            nulls : nulls] :
        \A f \in u.nulls : u[f] = {}}

\* schemas.CustomerCreate / schemas.CustomerUpdate
CustomerSpecs(names) == [name : names, email : {"c@x"}, phone : {""}, type : {"customer"}]

CustomerUpdates(names, types) ==
    [name : Opt(names), email : {{}}, phone : Opt({"1"}), type : Opt(types)]

\* crud.get_user
get_user(d, user_id) == IF user_id \in DOMAIN d.users THEN user_id ELSE None

\* crud.get_user_by_email
get_user_by_email(d, email) ==
    LET found == {u \in DOMAIN d.users : d.users[u].email = email}
    IN  IF found = {} THEN None ELSE CHOOSE u \in found : \A v \in found : u <= v

\* crud.get_users
get_users(d, skip, limit) == Window(SortedIds(DOMAIN d.users), skip, limit)

\* crud.create_user
crud_create_user(d, user, id) ==
    [db |-> [d EXCEPT !.users = Put(d.users, id,
                                    User(user.name, user.email, user.is_super_admin))],
     ret |-> id]

\* The users row after `for field, value in update_data.items(): setattr(...)`.
PatchedUserAll(old, user_update) ==
    [name |-> Patched("n1", user_update.name),
     email |-> Patched(old.email, user_update.email),
     is_super_admin |-> Patched(FALSE, user_update.is_super_admin),
     nulls |-> user_update.nulls \cap {"is_super_admin"}]
PatchedUser(old, user_update) ==
    [name |-> Patched(old.name, user_update.name),
     email |-> Patched(old.email, user_update.email),
     is_super_admin |-> IF "is_super_admin" \in user_update.nulls THEN FALSE
                        ELSE Patched(old.is_super_admin, user_update.is_super_admin),
     nulls |-> IF "is_super_admin" \in user_update.nulls THEN {"is_super_admin"}
               ELSE IF user_update.is_super_admin /= {} THEN {}
               ELSE old.nulls]

\* crud.update_user.  The commit raises IntegrityError, and stores nothing,
\* when name or email is set to None (nullable=False) and when the new email
\* is the email of another user (unique=True).
crud_update_user_nounique(d, user_id, user_update) ==
    IF get_user(d, user_id) = None THEN [db |-> d, ret |-> None, raised |-> FALSE]
    ELSE LET db_user == PatchedUser(d.users[user_id], user_update)
         IN  IF user_update.nulls \cap {"name", "email"} /= {}
             THEN [db |-> d, ret |-> None, raised |-> TRUE]
             ELSE [db |-> [d EXCEPT !.users = Put(d.users, user_id, db_user)],
                   ret |-> user_id, raised |-> FALSE]
crud_update_user(d, user_id, user_update) ==
    IF get_user(d, user_id) = None THEN [db |-> d, ret |-> None, raised |-> FALSE]
    ELSE LET db_user == PatchedUser(d.users[user_id], user_update)
         IN  IF \/ user_update.nulls \cap {"name", "email"} /= {}
                \/ \E u \in DOMAIN d.users \ {user_id} : d.users[u].email = db_user.email
             THEN [db |-> d, ret |-> None, raised |-> TRUE]
             ELSE [db |-> [d EXCEPT !.users = Put(d.users, user_id, db_user)],
                   ret |-> user_id, raised |-> FALSE]

\* User.invoices and User.payments: the rows that refer to a user.
UserRows(d, user_id) ==
    [invoices |-> {i \in DOMAIN d.invoices : d.invoices[i].user_id = user_id},
     payments |-> {p \in DOMAIN d.payments : d.payments[p].user_id = user_id}]

\* crud.delete_user.  User.invoices and User.payments have no delete cascade,
\* so the unit of work sets user_id of the referring rows to NULL; the columns
\* are nullable=False, so the flush raises IntegrityError and nothing is
\* deleted.
crud_delete_user(d, user_id) ==
    IF get_user(d, user_id) = None THEN [db |-> d, ret |-> FALSE, raised |-> FALSE]
    ELSE IF UserRows(d, user_id).invoices \cup UserRows(d, user_id).payments /= {}
    THEN [db |-> d, ret |-> FALSE, raised |-> TRUE]
    ELSE [db |-> [d EXCEPT !.users = Drop(d.users, {user_id})],
          ret |-> TRUE, raised |-> FALSE]

\* crud.create_customer
crud_create_customer(d, customer, id) ==
    [db |-> [d EXCEPT !.customers = Put(d.customers, id, customer)], ret |-> id]

\* crud.update_customer
crud_update_customer(d, customer_id, customer_update) ==
    IF get_customer(d, customer_id) = None THEN [db |-> d, ret |-> None]
    ELSE LET old == d.customers[customer_id]
             db_customer == [name |-> Patched(old.name, customer_update.name),
                             email |-> Patched(old.email, customer_update.email),
                             phone |-> Patched(old.phone, customer_update.phone),
                             type |-> Patched(old.type, customer_update.type)]
         IN  [db |-> [d EXCEPT !.customers = Put(d.customers, customer_id, db_customer)],
              ret |-> customer_id]

\* crud.delete_customer.  Customer.invoices has no delete cascade and
\* Invoice.customer_id is nullable=False: deleting a customer that invoices
\* refer to raises IntegrityError and deletes nothing.
crud_delete_customer_unchecked(d, customer_id) ==
    IF get_customer(d, customer_id) = None THEN [db |-> d, ret |-> FALSE, raised |-> FALSE]
    ELSE [db |-> [d EXCEPT !.customers = Drop(d.customers, {customer_id})],
          ret |-> TRUE, raised |-> FALSE]
crud_delete_customer(d, customer_id) ==
    IF get_customer(d, customer_id) = None THEN [db |-> d, ret |-> FALSE, raised |-> FALSE]
    ELSE IF \E i \in DOMAIN d.invoices : d.invoices[i].customer_id = customer_id
    THEN [db |-> d, ret |-> FALSE, raised |-> TRUE]
    ELSE [db |-> [d EXCEPT !.customers = Drop(d.customers, {customer_id})],
          ret |-> TRUE, raised |-> FALSE]

(***************************************************************************)
(* auth: the dependencies of the handlers                                  *)
(***************************************************************************)
\* auth.get_current_super_admin: passes for a super-admin, answers 403 for
\* every other authenticated caller.
get_current_super_admin_any(d, caller) == TRUE
get_current_super_admin(d, caller) == is_super_admin(d, caller)

\* response_model=schemas.UserResponse: is_super_admin is declared bool, so a
\* row whose is_super_admin is NULL fails the validation of the response.
ValidUserResponse(d, user_id) == d.users[user_id].nulls = {}

\* An answer that leaves the store unchanged and carries the request payload.
Refused(op, caller, id, code, req) ==
    /\ resp' = [Response(op, caller, id, code) EXCEPT !.req = req]
    /\ UNCHANGED <<db, nextid, sessions>>

(***************************************************************************)
(* routers/auth.py                                                         *)
(***************************************************************************)
\* POST /auth/register
RegisterNoCheck(user) ==
    LET r == crud_create_user(db, user, nextid.user)
    IN  /\ db' = r.db
        /\ UNCHANGED sessions
        /\ nextid' = [nextid EXCEPT !.user = @ + 1]
        /\ resp' = Created("register", None, None, r.ret, user)
Register(user) ==
    IF get_user_by_email(db, user.email) /= None
    THEN Refused("register", None, None, 400, user)
    ELSE LET r == crud_create_user(db, user, nextid.user)
         IN  /\ db' = r.db
             /\ UNCHANGED sessions
             /\ nextid' = [nextid EXCEPT !.user = @ + 1]
             /\ resp' = Created("register", None, None, r.ret, user)

(***************************************************************************)
(* routers/users.py                                                        *)
(***************************************************************************)
\* GET /users/
ReadUsers(caller, skip, limit) ==
    IF ~get_current_super_admin(db, caller)
    THEN Answer("read_users", caller, None, 403)
    ELSE LET users == get_users(db, skip, limit)
         IN  IF \E k \in 1..Len(users) : ~ValidUserResponse(db, users[k])
             THEN Answer("read_users", caller, None, 500)
             ELSE /\ resp' = Listed("read_users", caller, None, skip, limit, users)
                  /\ UNCHANGED <<db, nextid, sessions>>

\* GET /users/{user_id}
ReadUser(caller, user_id) ==
    IF user_id /= caller /\ ~is_super_admin(db, caller)
    THEN Answer("read_user", caller, user_id, 403)
    ELSE IF get_user(db, user_id) = None
    THEN Answer("read_user", caller, user_id, 404)
    ELSE IF ~ValidUserResponse(db, user_id)
    THEN Answer("read_user", caller, user_id, 500)
    ELSE Answer("read_user", caller, user_id, 200)

\* PUT /users/{user_id}
UpdateUserNoAdminGuard(caller, user_id, user_update) ==
    IF user_id /= caller /\ ~is_super_admin(db, caller)
    THEN Refused("update_user", caller, user_id, 403, user_update)
    ELSE LET r == crud_update_user(db, user_id, user_update)
         IN  IF r.raised THEN Refused("update_user", caller, user_id, 500, user_update)
             ELSE IF r.ret = None
             THEN Refused("update_user", caller, user_id, 404, user_update)
             ELSE /\ db' = r.db
                  /\ resp' = [Response("update_user", caller, user_id,
                                       IF ValidUserResponse(r.db, user_id) THEN 200 ELSE 500)
                                 EXCEPT !.req = user_update]
                  /\ UNCHANGED <<nextid, sessions>>
UpdateUser(caller, user_id, user_update) ==
    IF user_id /= caller /\ ~is_super_admin(db, caller)
    THEN Refused("update_user", caller, user_id, 403, user_update)
    ELSE IF user_update.is_super_admin /= {} /\ ~is_super_admin(db, caller)
    THEN Refused("update_user", caller, user_id, 403, user_update)
    ELSE LET r == crud_update_user(db, user_id, user_update)
         IN  IF r.raised THEN Refused("update_user", caller, user_id, 500, user_update)
             ELSE IF r.ret = None
             THEN Refused("update_user", caller, user_id, 404, user_update)
             ELSE /\ db' = r.db
                  /\ resp' = [Response("update_user", caller, user_id,
                                       IF ValidUserResponse(r.db, user_id) THEN 200 ELSE 500)
                                 EXCEPT !.req = user_update]
                  /\ UNCHANGED <<nextid, sessions>>

\* DELETE /users/{user_id}
DeleteUser(caller, user_id) ==
    IF ~get_current_super_admin(db, caller)
    THEN Answer("delete_user", caller, user_id, 403)
    ELSE LET r == crud_delete_user(db, user_id)
         IN  IF r.raised THEN Answer("delete_user", caller, user_id, 500)
             ELSE IF ~r.ret THEN Answer("delete_user", caller, user_id, 404)
             ELSE /\ db' = r.db
                  /\ resp' = Response("delete_user", caller, user_id, 204)
                  /\ UNCHANGED <<nextid, sessions>>

(***************************************************************************)
(* routers/customers.py                                                    *)
(***************************************************************************)
\* POST /customers/
CreateCustomer(caller, customer) ==
    LET r == crud_create_customer(db, customer, nextid.customer)
    IN  /\ db' = r.db
        /\ UNCHANGED sessions
        /\ nextid' = [nextid EXCEPT !.customer = @ + 1]
        /\ resp' = Created("create_customer", caller, None, r.ret, customer)

\* GET /customers/{customer_id}
ReadCustomer(caller, customer_id) ==
    IF get_customer(db, customer_id) = None
    THEN Answer("read_customer", caller, customer_id, 404)
    ELSE Answer("read_customer", caller, customer_id, 200)

\* PUT /customers/{customer_id}
UpdateCustomer(caller, customer_id, customer_update) ==
    LET r == crud_update_customer(db, customer_id, customer_update)
    IN  IF r.ret = None
        THEN Refused("update_customer", caller, customer_id, 404, customer_update)
        ELSE /\ db' = r.db
             /\ resp' = [Response("update_customer", caller, customer_id, 200)
                            EXCEPT !.req = customer_update]
             /\ UNCHANGED <<nextid, sessions>>

\* DELETE /customers/{customer_id}
DeleteCustomer(caller, customer_id) ==
    LET r == crud_delete_customer(db, customer_id)
    IN  IF r.raised THEN Answer("delete_customer", caller, customer_id, 500)
        ELSE IF ~r.ret THEN Answer("delete_customer", caller, customer_id, 404)
        ELSE /\ db' = r.db
             /\ resp' = Response("delete_customer", caller, customer_id, 200)
             /\ UNCHANGED <<nextid, sessions>>

(***************************************************************************)
(* SpecUsers: the user handlers, called by two regular users (1 and 2) and *)
(* a super-admin (3).  User 1 owns an invoice.                             *)
(***************************************************************************)
InitUsers ==
    LET d0 == [users |-> (1 :> User("n1", "u1@x", FALSE) @@ 2 :> User("n1", "u2@x", FALSE)
                            @@ 3 :> User("n1", "root@x", TRUE)),
               customers |-> (1 :> Customer("c1")),
               invoices |-> EmptyTable, items |-> EmptyTable, payments |-> EmptyTable]
        d1 == crud_create_invoice(d0, [customer_id |-> 1, status |-> "draft",
                                       items |-> <<>>], 1, 1, 1).db
    IN  /\ db = d1
        /\ nextid = [FirstIds EXCEPT !.user = 4, !.customer = 2, !.invoice = 2]
        /\ resp = NoResponse
        /\ sessions = NoSessions

\* The ids the requests name: the three users and an id that is not stored.
UserIds == {1, 2, 3, 4}

\* The update payloads of SpecUsers: a name, the super-admin flag as a value
\* or as null, and a name together with the flag.
PermUserUpdates ==
    {u \in UserUpdates({"n2"}, {}, {{}, {"is_super_admin"}}) :
        /\ u.is_super_admin \subseteq {TRUE}
        /\ u.name /= {} \/ u.is_super_admin /= {} \/ u.nulls /= {}}

NextUsers ==
    \/ \E c \in DOMAIN db.users, skip \in {0, 1} : ReadUsers(c, skip, MaxWindow)
    \/ \E c \in DOMAIN db.users, i \in UserIds : ReadUser(c, i)
    \/ \E c \in DOMAIN db.users, i \in UserIds, u \in PermUserUpdates :
          UpdateUser(c, i, u)
    \/ \E c \in DOMAIN db.users, i \in UserIds : DeleteUser(c, i)

SpecUsers == InitUsers /\ [][NextUsers]_vars

(***************************************************************************)
(* Properties of the user handlers.                                        *)
(***************************************************************************)
UserOps == {"read_users", "read_user", "update_user", "delete_user"}

\* C14: a caller who is not a super-admin is answered Forbidden, and changes
\* nothing, when listing users, deleting any user, and reading or updating a
\* record other than their own; they are not answered Forbidden when reading
\* their own record or updating it without the super-admin flag.  A super-admin
\* is never answered Forbidden: reading, listing and updating stored users is
\* carried out, and deleting a stored user to which no invoice or payment
\* refers removes it.
C14_UserPermission ==
    [][resp'.op \in UserOps =>
          LET op == resp'.op
              c == resp'.caller
              id == resp'.id
          IN  IF ~db.users[c].is_super_admin
              THEN /\ op \in {"read_users", "delete_user"} \/ id /= c =>
                         resp'.code = 403 /\ db' = db
                   /\ op = "read_user" /\ id = c =>
                         /\ resp'.code /= 403
                         /\ ValidUserResponse(db, c) => resp'.code = 200
                   /\ op = "update_user" /\ id = c /\ resp'.req.is_super_admin = {} =>
                         /\ resp'.code /= 403
                         /\ db'.users[c].name = Patched(db.users[c].name, resp'.req.name)
              ELSE /\ resp'.code /= 403
                   /\ op = "read_users"
                         /\ (\A u \in DOMAIN db.users : ValidUserResponse(db, u)) =>
                         /\ resp'.code = 200
                         /\ IsWindowOf(resp'.body, DOMAIN db.users, resp'.skip, resp'.limit)
                   /\ op = "read_user" /\ id \in DOMAIN db.users
                         /\ ValidUserResponse(db, id) => resp'.code = 200
                   /\ op = "update_user" /\ id \in DOMAIN db.users =>
                         /\ resp'.code = IF ValidUserResponse(db', id) THEN 200 ELSE 500
                         /\ db'.users[id].name = Patched(db.users[id].name, resp'.req.name)
                         /\ resp'.req.is_super_admin /= {} =>
                               db'.users[id].is_super_admin
                                  = Patched(FALSE, resp'.req.is_super_admin)
                   /\ op = "delete_user" /\ id \in DOMAIN db.users =>
                         IF UserRows(db, id).invoices \cup UserRows(db, id).payments = {}
                         THEN resp'.code = 204 /\ DOMAIN db'.users = DOMAIN db.users \ {id}
                         ELSE db' = db
    ]_vars

\* C14 witness: a regular user was just refused the deletion of another
\* stored user, who is still stored.
C14_Witness ==
    /\ Done(resp, "delete_user", 403)
    /\ ~db.users[resp.caller].is_super_admin
    /\ resp.id \in DOMAIN db.users
    /\ resp.id /= resp.caller

\* C14 witness of a super-admin: a super-admin just deleted another user.
C14_WitnessAdmin ==
    /\ Done(resp, "delete_user", 204)
    /\ db.users[resp.caller].is_super_admin
    /\ resp.id \notin DOMAIN db.users
    /\ resp.id /= resp.caller

\* C14 witness of a regular user's own record: a regular user just renamed
\* themselves.
C14_WitnessSelf ==
    /\ Done(resp, "update_user", 200)
    /\ resp.id = resp.caller
    /\ ~db.users[resp.caller].is_super_admin
    /\ db.users[resp.caller].name = "n2"

\* The payload supplies the is_super_admin field, as a value or as null.
SuppliesAdminFlag(user_update) ==
    user_update.is_super_admin /= {} \/ "is_super_admin" \in user_update.nulls

\* The stored is_super_admin of a user differs before and after the step.
AdminFlagChanged(u) ==
    \/ db'.users[u].is_super_admin /= db.users[u].is_super_admin
    \/ db'.users[u].nulls /= db.users[u].nulls

\* C15: a user update whose payload supplies is_super_admin, made by a caller
\* who is not a super-admin, is answered Forbidden and leaves the target's
\* is_super_admin, name and email unchanged; only a super-admin's update
\* changes a user's is_super_admin.
C15_AdminFlagGuard ==
    [][/\ resp'.op = "update_user" /\ ~db.users[resp'.caller].is_super_admin
             /\ SuppliesAdminFlag(resp'.req) =>
          resp'.code = 403 /\ db'.users = db.users
       /\ \A u \in DOMAIN db.users \cap DOMAIN db'.users :
             AdminFlagChanged(u) =>
                resp'.op = "update_user" /\ db.users[resp'.caller].is_super_admin
    ]_vars

\* C15 restricted to payloads that supply is_super_admin as true or false:
\* Forbidden, and the users table is unchanged.
C15_ValueGuard ==
    [][resp'.op = "update_user" /\ ~db.users[resp'.caller].is_super_admin
          /\ resp'.req.is_super_admin /= {} =>
          resp'.code = 403 /\ db'.users = db.users
    ]_vars

\* C15 witness: a regular user's update of their own record that supplied
\* is_super_admin = true and a new name was just refused; the flag and the
\* name are as before.
C15_Witness ==
    /\ Done(resp, "update_user", 403)
    /\ resp.id = resp.caller
    /\ resp.req.is_super_admin = {TRUE}
    /\ resp.req.name = {"n2"}
    /\ ~db.users[resp.id].is_super_admin
    /\ db.users[resp.id].name = "n1"

\* C15 failing case: a regular user's update of their own record supplied
\* is_super_admin as null; it was not refused and the stored flag is NULL.
C15_WitnessNull ==
    /\ resp.op = "update_user"
    /\ resp.code /= 403
    /\ resp.id = resp.caller
    /\ "is_super_admin" \in resp.req.nulls
    /\ db.users[resp.id].nulls = {"is_super_admin"}
    /\ resp.id \in {1, 2}

\* C11 witness of the rejected delete: the owner's delete of an invoice that
\* a payment refers to was not carried out.
C11_WitnessRejectedDelete ==
    /\ Done(resp, "delete_invoice", 500)
    /\ resp.id \in DOMAIN db.invoices
    /\ db.invoices[resp.id].user_id = resp.caller
    /\ InvoicePayments(db, resp.id) /= {}

C16_WitnessItemGone ==
    /\ Done(resp, "update_invoice_item", 404)
    /\ resp.id < nextid.item
    /\ DOMAIN db.invoices = {}

(***************************************************************************)
(* SpecReg: registrations, users changing their own email, and deletions   *)
(* of users by super-admins.  One regular user is stored at the start.     *)
(***************************************************************************)
InitReg ==
    /\ db = [users |-> (1 :> User("n1", "u1@x", FALSE)),
             customers |-> EmptyTable,
             invoices |-> EmptyTable, items |-> EmptyTable, payments |-> EmptyTable]
    /\ nextid = [FirstIds EXCEPT !.user = 2]
    /\ resp = NoResponse
    /\ sessions = NoSessions

RegIds == 1..(MaxRows + 2)

NextReg ==
    \/ \E user \in UserSpecs({"n2"}, Emails) :
          nextid.user <= MaxRows + 2 /\ Register(user)
    \/ \E c \in DOMAIN db.users, u \in UserUpdates({}, {"u2@x", "new@x"}, {{}}) :
          UpdateUser(c, c, u)
    \/ \E c \in DOMAIN db.users, i \in RegIds : DeleteUser(c, i)

SpecReg == InitReg /\ [][NextReg]_vars

\* C17: registration with an email that belongs to a stored user is answered
\* 400, stores no user and changes no user; registration with an unused email
\* is answered 201 and stores exactly one new user, with the supplied name,
\* email and flag, leaving the others as they were.
C17_Register ==
    [][resp'.op = "register" =>
          LET user == resp'.req IN
          IF \E u \in DOMAIN db.users : db.users[u].email = user.email
          THEN resp'.code = 400 /\ db' = db /\ nextid' = nextid
          ELSE /\ resp'.code = 201
               /\ resp'.ret \notin DOMAIN db.users
               /\ DOMAIN db'.users = DOMAIN db.users \cup {resp'.ret}
               /\ db'.users[resp'.ret] = User(user.name, user.email, user.is_super_admin)
               /\ \A u \in DOMAIN db.users : db'.users[u] = db.users[u]
               /\ [db' EXCEPT !.users = db.users] = db
    ]_vars

\* C17 witness: a registration was just refused because its email is the one
\* a stored user changed to; two users are stored.
C17_Witness ==
    /\ Done(resp, "register", 400)
    /\ Cardinality(DOMAIN db.users) = 2
    /\ \E u \in DOMAIN db.users :
          db.users[u].email = resp.req.email /\ resp.req.email = "new@x"
    /\ \A u \in DOMAIN db.users : db.users[u].name = "n1" \/ db.users[u].email /= "new@x"

\* C17 witness of a registration carried out: a second user was just stored
\* with an email that a deleted user had used.
C17_WitnessStored ==
    /\ Done(resp, "register", 201)
    /\ db.users[resp.ret].email = "u1@x"
    /\ 1 \notin DOMAIN db.users

(***************************************************************************)
(* SpecPatch: partial updates of a user, a customer, an invoice and a      *)
(* payment, requested by a super-admin (user 1).  Of each table two rows   *)
(* are stored; the requests address row 2 and an id that is not stored.    *)
(***************************************************************************)
InitPatch ==
    LET d0 == [users |-> (1 :> User("n1", "root@x", TRUE) @@ 2 :> User("n1", "u2@x", FALSE)),
               customers |-> (1 :> Customer("n1") @@ 2 :> Customer("n1")),
               invoices |-> EmptyTable, items |-> EmptyTable, payments |-> EmptyTable]
        d1 == crud_create_invoice(d0, [customer_id |-> 1, status |-> "draft",
                                       items |-> <<Item("a", 2, 3)>>], 2, 1, 1).db
        d2 == crud_create_invoice(d1, [customer_id |-> 1, status |-> "draft",
                                       items |-> <<>>], 2, 2, 2).db
        d3 == crud_create_payment(d2, [invoice_id |-> 1, amount |-> 2, method |-> "cash",
                                       status |-> "pending"], 2, 1).db
        d4 == crud_create_payment(d3, [invoice_id |-> 2, amount |-> 2, method |-> "cash",
                                       status |-> "pending"], 2, 2).db
    IN  /\ db = d4
        /\ nextid = [user |-> 3, customer |-> 3, invoice |-> 3, item |-> 2, payment |-> 3]
        /\ resp = NoResponse
        /\ sessions = NoSessions

PatchIds == {2, 3}

NextPatch ==
    \/ \E i \in PatchIds, u \in UserUpdates({"n2"}, {"u2@x"}, {{}, {"is_super_admin"}}) :
          UpdateUser(1, i, u)
    \/ \E i \in PatchIds, u \in CustomerUpdates({"n2"}, {"client"}) :
          UpdateCustomer(1, i, u)
    \/ \E i \in PatchIds, u \in InvoiceUpdates({1}, {"sent"}) :
          UpdateInvoice(1, i, u)
    \/ \E i \in PatchIds, u \in PaymentUpdates({3}, {"cash"}, {"completed"}) :
          UpdatePayment(1, i, u)

SpecPatch == InitPatch /\ [][NextPatch]_vars

(***************************************************************************)
(* Partial updates.                                                        *)
(***************************************************************************)
PatchOps == {"update_user", "update_customer", "update_invoice", "update_payment"}

Tables == {"users", "customers", "invoices", "items", "payments"}

PatchTable(op) ==
    CASE op = "update_user" -> "users"
      [] op = "update_customer" -> "customers"
      [] op = "update_invoice" -> "invoices"
      [] op = "update_payment" -> "payments"

PatchFields(op) ==
    CASE op = "update_user" -> {"name", "email", "is_super_admin"}
      [] op = "update_customer" -> {"name", "email", "phone", "type"}
      [] op = "update_invoice" -> {"customer_id", "status", "is_paid"}
      [] op = "update_payment" -> {"amount", "method", "status"}

\* The payload names field f, with a value or with null.
Supplied(u, f) == u[f] /= {} \/ ("nulls" \in DOMAIN u /\ f \in u.nulls)

\* What a row holds in field f: {} for NULL, {v} for the value v.
StoredField(row, f) ==
    IF "nulls" \in DOMAIN row /\ f \in row.nulls THEN {} ELSE {row[f]}

\* The update was applied to the stored row: the answer is 200, or, for a
\* user, 500 because the updated row does not serialise.
Applied(r) == r.code = 200 \/ (r.op = "update_user" /\ r.code = 500)

C18_WitnessCustomer ==
    /\ resp.op = "update_customer" /\ resp.code = 200 /\ resp.id = 2
    /\ resp.req.type = {"client"} /\ resp.req.name = {} /\ resp.req.phone = {}
    /\ db.customers[2].type = "client" /\ db.customers[2].name = "n2"
    /\ db.customers[2].phone = "1"

C18_WitnessInvoice ==
    /\ resp.op = "update_invoice" /\ resp.code = 200 /\ resp.id = 2
    /\ resp.req.is_paid = {TRUE} /\ resp.req.status = {}
    /\ db.invoices[2].is_paid /\ db.invoices[2].status = "sent"

C18_WitnessPayment ==
    /\ resp.op = "update_payment" /\ resp.code = 200 /\ resp.id = 2
    /\ resp.req.amount = {3} /\ resp.req.status = {}
    /\ db.payments[2].amount = 3 /\ db.payments[2].status = "completed"

C18_WitnessNull ==
    /\ resp.op = "update_user" /\ resp.code = 500 /\ resp.id = 2
    /\ resp.req.nulls = {"is_super_admin"} /\ resp.req.name = {"n2"}
    /\ db.users[2].nulls = {"is_super_admin"} /\ db.users[2].name = "n2"

(***************************************************************************)
(* SpecDel: the five delete handlers, called by the stored users.  Users 1 *)
(* and 2 are regular, user 3 is a super-admin.  User 1 owns invoice 1      *)
(* (customer 1, one item, one payment) and invoice 2 (customer 1, one      *)
(* item); user 2 and customer 2 are referred to by no row.                 *)
(***************************************************************************)
InitDel ==
    LET d0 == [users |-> (1 :> User("n1", "u1@x", FALSE) @@ 2 :> User("n1", "u2@x", FALSE)
                            @@ 3 :> User("n1", "root@x", TRUE)),
               customers |-> (1 :> Customer("n1") @@ 2 :> Customer("n1")),
               invoices |-> EmptyTable, items |-> EmptyTable, payments |-> EmptyTable]
        d1 == crud_create_invoice(d0, [customer_id |-> 1, status |-> "draft",
                                       items |-> <<Item("a", 2, 3)>>], 1, 1, 1).db
        d2 == crud_create_invoice(d1, [customer_id |-> 1, status |-> "draft",
                                       items |-> <<Item("a", 2, 3)>>], 1, 2, 2).db
        d3 == crud_create_payment(d2, [invoice_id |-> 1, amount |-> 2, method |-> "cash",
                                       status |-> "pending"], 1, 1).db
    IN  /\ db = d3
        /\ nextid = [user |-> 4, customer |-> 3, invoice |-> 3, item |-> 3, payment |-> 2]
        /\ resp = NoResponse
        /\ sessions = NoSessions

DelIds == {1, 2, 3, 4}

NextDel ==
    \/ \E c \in DOMAIN db.users, i \in DelIds : DeleteUser(c, i)
    \/ \E c \in DOMAIN db.users, i \in DelIds : DeleteCustomer(c, i)
    \/ \E c \in DOMAIN db.users, i \in DelIds : DeleteInvoice(c, i)
    \/ \E c \in DOMAIN db.users, i \in DelIds : DeleteInvoiceItem(c, i)
    \/ \E c \in DOMAIN db.users, i \in DelIds : DeletePayment(c, i)

SpecDel == InitDel /\ [][NextDel]_vars

(***************************************************************************)
(* Deleting twice.                                                         *)
(***************************************************************************)
DeleteOps == {"delete_user", "delete_customer", "delete_invoice", "delete_invoice_item",
              "delete_payment"}

DeleteTable(op) ==
    CASE op = "delete_user" -> "users"
      [] op = "delete_customer" -> "customers"
      [] op = "delete_invoice" -> "invoices"
      [] op = "delete_invoice_item" -> "items"
      [] op = "delete_payment" -> "payments"

\* r1 is what a crud delete of id returned on store d, r2 what the same delete
\* returned on the store r1 left; stored tells whether d held the id.
TwiceSame(d, stored, r1, r2) ==
    /\ r2.db = r1.db
    /\ ~stored => r1.db = d /\ ~r1.ret
    /\ r1.ret => ~r2.ret

\* The crud deletes of every id on store d.
DeleteTwice(d) ==
    \A id \in DelIds :
       /\ LET r1 == crud_delete_user(d, id)
              r2 == crud_delete_user(r1.db, id)
          IN  /\ TwiceSame(d, id \in DOMAIN d.users, r1, r2)
              /\ id \notin DOMAIN d.users => ~r1.raised
              /\ r1.ret => ~r2.raised
       /\ LET r1 == crud_delete_customer(d, id)
              r2 == crud_delete_customer(r1.db, id)
          IN  /\ TwiceSame(d, id \in DOMAIN d.customers, r1, r2)
              /\ id \notin DOMAIN d.customers => ~r1.raised
              /\ r1.ret => ~r2.raised
       /\ LET r1 == crud_delete_invoice(d, id)
              r2 == crud_delete_invoice(r1.db, id)
          IN  /\ TwiceSame(d, id \in DOMAIN d.invoices, r1, r2)
              /\ id \notin DOMAIN d.invoices => ~r1.raised
              /\ r1.ret => ~r2.raised
       /\ LET r1 == crud_delete_invoice_item(d, id)
              r2 == crud_delete_invoice_item(r1.db, id)
          IN  TwiceSame(d, id \in DOMAIN d.items, r1, r2)
       /\ LET r1 == crud_delete_payment(d, id)
              r2 == crud_delete_payment(r1.db, id)
          IN  TwiceSame(d, id \in DOMAIN d.payments, r1, r2)

\* C19: delete is idempotent in effect for users, customers, invoices, items
\* and payments.  On every store, a crud delete of an id that is not stored
\* returns false without raising and leaves the store as it is, and a second
\* delete of the same id leaves the store the first one left.  A delete
\* request for an id that is not stored changes nothing and is answered 404
\* (delete_user, open to super-admins only, answers another caller 403
\* before it looks the id up); a delete that succeeded leaves the id not
\* stored.
C19_DeleteIdempotent ==
    [][/\ DeleteTwice(db)
       /\ DeleteTwice(db')
       /\ resp'.op \in DeleteOps =>
            LET t == DeleteTable(resp'.op) IN
            IF resp'.id \notin DOMAIN db[t]
            THEN /\ db' = db
                 /\ resp'.code = IF resp'.op = "delete_user"
                                    /\ ~get_current_super_admin(db, resp'.caller)
                                 THEN 403 ELSE 404
            ELSE resp'.code \in {200, 204} => resp'.id \notin DOMAIN db'[t]]_vars

\* Payment 1, stored at the start, was deleted and a further delete of it is
\* answered 404; so for invoice 1 and its item.
C19_Witness ==
    /\ resp.op = "delete_payment" /\ resp.id = 1 /\ resp.code = 404
    /\ 1 \notin DOMAIN db.payments

C19_WitnessInvoice ==
    /\ resp.op = "delete_invoice" /\ resp.id = 1 /\ resp.code = 404
    /\ 1 \notin DOMAIN db.invoices

C19_WitnessItem ==
    /\ resp.op = "delete_invoice_item" /\ resp.id = 1 /\ resp.code = 404
    /\ 1 \notin DOMAIN db.items

C19_WitnessUser ==
    /\ resp.op = "delete_user" /\ resp.id = 1 /\ resp.code = 404
    /\ 1 \notin DOMAIN db.users

C19_WitnessCustomer ==
    /\ resp.op = "delete_customer" /\ resp.id = 1 /\ resp.code = 404
    /\ 1 \notin DOMAIN db.customers

(***************************************************************************)
(* Deleting a payment.                                                     *)
(***************************************************************************)
\* The request deletes a stored payment and comes from the user who recorded
\* it.
DeleteByRecorder(r) ==
    /\ r.op = "delete_payment"
    /\ r.id \in DOMAIN db.payments
    /\ db.payments[r.id].user_id = r.caller

\* The payment the request addressed is gone and the other payments are as
\* they were.
PaymentRemoved(r) ==
    /\ DOMAIN db'.payments = DOMAIN db.payments \ {r.id}
    /\ \A p \in DOMAIN db'.payments : db'.payments[p] = db.payments[p]

\* A read of a payment id that is not stored is answered 404, and no id is
\* handed out twice.
ReadOfMissingPayment ==
    /\ resp'.op = "read_payment" /\ resp'.id \notin DOMAIN db.payments => resp'.code = 404
    /\ \A p \in DOMAIN db'.payments : p < nextid'.payment

\* C20: a delete request for a stored payment made by the user who recorded
\* it is answered 204 and removes the payment, and a later read of that id
\* is answered 404.
C20_Delete204 ==
    [][/\ DeleteByRecorder(resp') => resp'.code = 204 /\ PaymentRemoved(resp')
       /\ ReadOfMissingPayment]_vars

\* What the handler does: the same, with the answer 200.
C20_Delete200 ==
    [][/\ DeleteByRecorder(resp') => resp'.code = 200 /\ PaymentRemoved(resp')
       /\ ReadOfMissingPayment]_vars

\* A regular user's delete of a payment was carried out: the payment was the
\* caller's own.
C20_Witness ==
    /\ resp.op = "delete_payment" /\ resp.code = 200
    /\ ~is_super_admin(db, resp.caller)
    /\ resp.id \notin DOMAIN db.payments
    /\ resp.id < nextid.payment

\* The read after the delete.
C20_WitnessRead ==
    /\ resp.op = "read_payment" /\ resp.code = 404
    /\ resp.id \notin DOMAIN db.payments
    /\ resp.id < nextid.payment

(***************************************************************************)
(* Requests served at the same time.  The handlers are plain `def`         *)
(* functions, which FastAPI runs on a thread pool, and every request has a *)
(* Session of its own.  A session reads the rows it needs (Begin), works   *)
(* on the objects it loaded, and writes at db.commit() (Commit): INSERT of *)
(* the objects added, DELETE of the objects deleted, and UPDATE of the     *)
(* columns whose value it changed, to the values computed from what it     *)
(* read.  The engine is the one of the tests: sqlite with the default      *)
(* settings, where a SELECT holds no lock past its end and the writes of   *)
(* one commit are atomic.                                                  *)
(***************************************************************************)
SessionIds == {1, 2}

Idle == [pc |-> "idle"]

\* The number of sessions that have committed.
Commits(ss) == Cardinality({s \in DOMAIN ss : ss[s].pc = "done"})

\* UPDATE ... SET of a unit of work: the columns whose value the session
\* changed (row `old` as loaded, `new` as the session left it), written to the
\* row as it is stored now.
FlushRowIncrement(cur, old, new) ==
    [f \in DOMAIN cur |-> IF new[f] = old[f] THEN cur[f]
                          ELSE IF f = "total_amount" THEN cur[f] + new[f] - old[f]
                          ELSE new[f]]
FlushRow(cur, old, new) ==
    [f \in DOMAIN cur |-> IF new[f] /= old[f] THEN new[f] ELSE cur[f]]

\* The flush of one table: `snap` is the table as the session read it, `new`
\* the table as the session left it, `cur` the stored table.
FlushTable(cur, snap, new) ==
    LET inserted == DOMAIN new \ DOMAIN snap
        deleted == DOMAIN snap \ DOMAIN new
    IN  [k \in (DOMAIN cur \ deleted) \cup inserted |->
            IF k \in inserted THEN new[k]
            ELSE IF k \in DOMAIN snap /\ new[k] /= snap[k]
            THEN FlushRow(cur[k], snap[k], new[k])
            ELSE cur[k]]

Flush(cur, snap, new) == [t \in DOMAIN cur |-> FlushTable(cur[t], snap[t], new[t])]

\* StaleDataError: an UPDATE of the flush matches no row, because another
\* request deleted the row after this session loaded it.  (A DELETE that
\* matches no row is a warning only.)
Stale(cur, snap, new) ==
    \E t \in DOMAIN cur : \E k \in DOMAIN snap[t] \cap DOMAIN new[t] :
        new[t][k] /= snap[t][k] /\ k \notin DOMAIN cur[t]

\* What a handler does on the store d as its session sees it: the status
\* code, the store as the session leaves it, and the id of the row created.
Serve(d, ids, rq) ==
    LET refuse(code) == [code |-> code, db |-> d, ret |-> None] IN
    CASE rq.op = "create_invoice_item" ->
           IF get_invoice(d, rq.id) = None THEN refuse(404)
           ELSE IF NotPermitted(d, rq.caller, d.invoices[rq.id].user_id) THEN refuse(403)
           ELSE LET r == crud_create_invoice_item(d, rq.req, rq.id, ids.item)
                IN  [code |-> 201, db |-> r.db, ret |-> r.ret]
      [] rq.op = "update_invoice_item" ->
           IF rq.id \notin DOMAIN d.items THEN refuse(404)
           ELSE IF get_invoice(d, d.items[rq.id].invoice_id) = None THEN refuse(500)
           ELSE IF NotPermitted(d, rq.caller, d.invoices[d.items[rq.id].invoice_id].user_id)
           THEN refuse(403)
           ELSE LET r == crud_update_invoice_item(d, rq.id, rq.req)
                IN  [code |-> 200, db |-> r.db, ret |-> None]
      [] rq.op = "delete_invoice_item" ->
           IF rq.id \notin DOMAIN d.items THEN refuse(404)
           ELSE IF get_invoice(d, d.items[rq.id].invoice_id) = None THEN refuse(500)
           ELSE IF NotPermitted(d, rq.caller, d.invoices[d.items[rq.id].invoice_id].user_id)
           THEN refuse(403)
           ELSE LET r == crud_delete_invoice_item(d, rq.id)
                IN  [code |-> 204, db |-> r.db, ret |-> None]
      [] rq.op = "create_payment" ->
           IF get_invoice(d, rq.id) = None THEN refuse(404)
           ELSE IF NotPermitted(d, rq.caller, d.invoices[rq.id].user_id) THEN refuse(403)
           ELSE LET r == crud_create_payment(d, rq.req, rq.caller, ids.payment)
                IN  [code |-> 201, db |-> r.db, ret |-> r.ret]

\* A request (op, caller, the id of its path or payload, payload).
Request(op, caller, id, req) == [op |-> op, caller |-> caller, id |-> id, req |-> req]

\* Session s takes up request rq: the handler runs up to its db.commit() on
\* the rows the session reads now.  `seen` is the number of commits that
\* came before the read.
Begin(s, rq) ==
    /\ sessions[s].pc = "idle"
    /\ LET out == Serve(db, nextid, rq)
       IN  /\ sessions' = [sessions EXCEPT ![s] =
                              [pc |-> "loaded", rq |-> rq, snap |-> db, new |-> out.db,
                               code |-> out.code, ret |-> out.ret,
                               seen |-> Commits(sessions), at |-> 0]]
           /\ nextid' = IF out.code /= 201 THEN nextid
                        ELSE IF rq.op = "create_payment"
                        THEN [nextid EXCEPT !.payment = @ + 1]
                        ELSE [nextid EXCEPT !.item = @ + 1]
    /\ UNCHANGED <<db, resp>>

\* db.commit() of session s, and the answer.  `at` numbers the commits.
Commit(s) ==
    /\ sessions[s].pc = "loaded"
    /\ LET ss == sessions[s]
           stale == Stale(db, ss.snap, ss.new)
           code == IF stale THEN 500 ELSE ss.code
       IN  /\ db' = IF stale THEN db ELSE Flush(db, ss.snap, ss.new)
           /\ sessions' = [sessions EXCEPT ![s].pc = "done", ![s].code = code,
                                           ![s].at = Commits(sessions) + 1]
           /\ resp' = [Response(ss.rq.op, ss.rq.caller, ss.rq.id, code)
                          EXCEPT !.ret = ss.ret, !.req = ss.rq.req]
    /\ UNCHANGED nextid

(***************************************************************************)
(* SpecRace: two requests that add, update or delete items of invoice 1,   *)
(* which starts with two items of total 6 each.  The caller is its owner.  *)
(***************************************************************************)
InitRace ==
    LET d0 == [users |-> (1 :> User("u1", "u1@x", FALSE)),
               customers |-> (1 :> Customer("c1")),
               invoices |-> EmptyTable, items |-> EmptyTable, payments |-> EmptyTable]
        d1 == crud_create_invoice(d0, [customer_id |-> 1, status |-> "draft",
                                       items |-> <<Item("a", 2, 3), Item("b", 2, 3)>>],
                                  1, 1, 1).db
    IN  /\ db = d1
        /\ nextid = [user |-> 2, customer |-> 2, invoice |-> 2, item |-> 3, payment |-> 1]
        /\ resp = NoResponse
        /\ sessions = [s \in SessionIds |-> Idle]

RaceItemIds == {1, 2}

RaceItemUpdates ==
    [description : {{}}, quantity : {{}, {3}}, unit_price : {{}, {3}}] \
        {[description |-> {}, quantity |-> {}, unit_price |-> {}]}

NextRace ==
    \/ \E s \in SessionIds :
          Begin(s, Request("create_invoice_item", 1, 1, Item("b", 2, 3)))
    \/ \E s \in SessionIds, i \in RaceItemIds, u \in RaceItemUpdates :
          Begin(s, Request("update_invoice_item", 1, i, u))
    \/ \E s \in SessionIds, i \in RaceItemIds :
          Begin(s, Request("delete_invoice_item", 1, i, <<>>))
    \/ \E s \in SessionIds : Commit(s)

SpecRace == InitRace /\ [][NextRace]_vars

(***************************************************************************)
(* Lost updates of total_amount.                                           *)
(***************************************************************************)
\* Session s has committed the writes of an item mutation.
Wrote(ss, s) == ss[s].pc = "done" /\ ss[s].code \in {200, 201, 204}

\* The adjustment session s computed for the total_amount of invoice inv.
Adjustment(ss, s, inv) ==
    ss[s].new.invoices[inv].total_amount - ss[s].snap.invoices[inv].total_amount

\* Both sessions read before either committed.
BothReadFirst(ss) == \A s \in SessionIds : ss[s].pc = "done" /\ ss[s].seen = 0

\* C21: item mutations on one invoice are not protected against each other.
\* When two add-item, update-item or delete-item requests both read the
\* invoice's total_amount before either writes, and both write it, the total
\* stored at the end is the value read plus the adjustment of the request
\* that committed last: the adjustment of the other is lost.  When the second
\* request reads after the first committed, total_amount is the sum of the
\* stored item totals.
C21_LostUpdate ==
    (\A s \in SessionIds : Wrote(sessions, s)) =>
        LET last == CHOOSE s \in SessionIds : sessions[s].at = 2
            first == CHOOSE s \in SessionIds : sessions[s].at = 1
        IN  IF BothReadFirst(sessions)
            THEN Adjustment(sessions, last, 1) /= 0 =>
                    db.invoices[1].total_amount =
                        sessions[last].snap.invoices[1].total_amount
                        + Adjustment(sessions, last, 1)
            ELSE db.invoices[1].total_amount = ItemsSum(db, 1)

\* Two requests that both read first have committed, and total_amount differs
\* from the sum of the stored item totals.
C21_Witness ==
    /\ BothReadFirst(sessions)
    /\ \A s \in SessionIds : Wrote(sessions, s)
    /\ db.invoices[1].total_amount /= ItemsSum(db, 1)

\* The same with an add-item and a delete-item request.
C21_WitnessAddDelete ==
    /\ C21_Witness
    /\ {sessions[s].rq.op : s \in SessionIds} = {"create_invoice_item", "delete_invoice_item"}

(***************************************************************************)
(* Existence before ownership.                                             *)
(***************************************************************************)
\* The request of the answer r addressed an invoice, an item or a payment
\* that is not stored.
TargetMissing(r) ==
    \/ r.op \in InvoiceOps /\ r.id \notin DOMAIN db.invoices
    \/ r.op \in ItemOps /\ r.id \notin DOMAIN db.items
    \/ r.op \in PaymentOps /\ r.id \notin DOMAIN db.payments

\* C22: read, update and delete of an invoice, add-item, update-item,
\* delete-item, and read, update and delete of a payment check existence
\* before ownership: when the invoice, item or payment addressed is not
\* stored, the answer is 404 for every caller, regular or super-admin, and
\* never 403.
C22_ExistenceFirst ==
    [][TargetMissing(resp') => resp'.code = 404]_vars

\* A regular user who owns nothing asked for a payment that was stored once,
\* for another user, and is answered NotFound.
C22_Witness ==
    /\ resp.op \in PaymentOps /\ resp.code = 404
    /\ resp.caller = 2 /\ ~is_super_admin(db, 2)
    /\ resp.id \notin DOMAIN db.payments /\ resp.id < nextid.payment

C22_WitnessItem ==
    /\ resp.op \in ItemOps /\ resp.code = 404
    /\ resp.caller = 2
    /\ resp.id \notin DOMAIN db.items

C22_WitnessInvoice ==
    /\ resp.op \in InvoiceOps /\ resp.code = 404
    /\ resp.caller = 2
    /\ resp.id \notin DOMAIN db.invoices

C22_WitnessAdmin ==
    /\ resp.op \in InvoiceOps \cup ItemOps \cup PaymentOps /\ resp.code = 404
    /\ is_super_admin(db, resp.caller)

(***************************************************************************)
(* Emails of the stored users.                                             *)
(***************************************************************************)
\* C23: in every state reached by registrations and user updates, updates of
\* the email included (and deletions, which free emails), no two stored users
\* have the same email.
C23_UniqueEmail ==
    \A u1, u2 \in DOMAIN db.users : db.users[u1].email = db.users[u2].email => u1 = u2

\* A user just asked for the email of another stored user and was refused;
\* that other user took the email by an update of their own.
C23_Witness ==
    /\ Done(resp, "update_user", 500)
    /\ resp.req.email = {"new@x"}
    /\ \E u \in DOMAIN db.users \ {resp.id} :
          db.users[u].email = "new@x" /\ db.users[u].name = "n1"
    /\ db.users[resp.id].email /= "new@x"

\* Three users are stored, one of them under an email taken by an update.
C23_WitnessUpdated ==
    /\ Done(resp, "update_user", 200)
    /\ Cardinality(DOMAIN db.users) = 3
    /\ db.users[resp.id].email = "new@x"

(***************************************************************************)
(* Who can make a super-admin.                                             *)
(***************************************************************************)
\* The stored users whose is_super_admin is true.
Admins(d) == {u \in DOMAIN d.users : d.users[u].is_super_admin /\ d.users[u].nulls = {}}

\* The request of the answer r came from no super-admin: it carried no token
\* (register), or the token of a user who is not a super-admin.
FromNoAdmin(r) == r.caller = None \/ r.caller \notin Admins(db)

\* C24: no request from an unauthenticated caller or from a user who is not a
\* super-admin adds a super-admin: the users whose is_super_admin is true
\* after the request had it true before.
C24_NoEscalation ==
    [][FromNoAdmin(resp') => Admins(db') \subseteq Admins(db)]_vars

\* What holds of the code: the same for every request but register.
C24_AuthenticatedNoEscalation ==
    [][FromNoAdmin(resp') /\ resp'.op /= "register" =>
          Admins(db') \subseteq Admins(db)]_vars

\* A user who is not a super-admin asked for the flag on their own record and
\* was refused.
C24_Witness ==
    /\ Done(resp, "update_user", 403)
    /\ resp.req.is_super_admin = {TRUE}
    /\ resp.caller = resp.id
    /\ resp.caller \notin Admins(db)

(***************************************************************************)
(* SpecPayRace: two requests that record payments for invoice 1 (one item, *)
(* total_amount 6, no payment yet), each in a session of its own.  The     *)
(* caller is the owner of the invoice.                                     *)
(***************************************************************************)
InitPayRace ==
    LET d0 == [users |-> (1 :> User("u1", "u1@x", FALSE)),
               customers |-> (1 :> Customer("c1")),
               invoices |-> EmptyTable, items |-> EmptyTable, payments |-> EmptyTable]
        d1 == crud_create_invoice(d0, [customer_id |-> 1, status |-> "sent",
                                       items |-> <<Item("a", 2, 3)>>], 1, 1, 1).db
    IN  /\ db = d1
        /\ nextid = [user |-> 2, customer |-> 2, invoice |-> 2, item |-> 2, payment |-> 1]
        /\ resp = NoResponse
        /\ sessions = [s \in SessionIds |-> Idle]

NextPayRace ==
    \/ \E s \in SessionIds,
          p \in PaymentSpecs({1}, Amounts, {"cash"}, {"completed", "pending"}) :
          Begin(s, Request("create_payment", 1, 1, p))
    \/ \E s \in SessionIds : Commit(s)

SpecPayRace == InitPayRace /\ [][NextPayRace]_vars

(***************************************************************************)
(* The paid threshold under two payments recorded at the same time.        *)
(***************************************************************************)
\* Both sessions have recorded a completed payment for invoice 1; each amount
\* alone is below total_amount, the two together reach it.
TwoPaymentsReach ==
    /\ \A s \in SessionIds :
          /\ sessions[s].pc = "done" /\ sessions[s].code = 201
          /\ sessions[s].rq.req.status = "completed"
          /\ sessions[s].rq.req.amount < db.invoices[1].total_amount
    /\ CompletedSum(db, 1) >= db.invoices[1].total_amount

\* C25: when two completed payments for the same unpaid invoice are recorded
\* by requests served at the same time, each below total_amount and the two
\* together at or above it, the invoice has is_paid true and status paid once
\* both have committed.
C25_PaidAfterBoth ==
    TwoPaymentsReach => db.invoices[1].is_paid /\ db.invoices[1].status = "paid"

\* What holds of the code: the invoice is marked paid when the second request
\* read after the first committed, and is left unpaid, with its status, when
\* both read before either committed.
C25_PaidUnlessBothReadFirst ==
    TwoPaymentsReach =>
        IF BothReadFirst(sessions)
        THEN ~db.invoices[1].is_paid /\ db.invoices[1].status = "sent"
        ELSE db.invoices[1].is_paid /\ db.invoices[1].status = "paid"

\* Two completed payments of 3 are stored for the invoice of total 6, both
\* recorded from reads made before either commit; the invoice is unpaid.
C25_Witness ==
    /\ TwoPaymentsReach
    /\ BothReadFirst(sessions)
    /\ ~db.invoices[1].is_paid

\* The same payments, the second recorded after the first was committed.
C25_WitnessSerial ==
    /\ TwoPaymentsReach
    /\ ~BothReadFirst(sessions)
    /\ db.invoices[1].is_paid

InitRef ==
    /\ db = [users |-> (1 :> User("n1", "u1@x", FALSE) @@ 2 :> User("n1", "root@x", TRUE)),
             customers |-> EmptyTable,
             invoices |-> EmptyTable, items |-> EmptyTable, payments |-> EmptyTable]
    /\ nextid = [FirstIds EXCEPT !.user = 3]
    /\ resp = NoResponse
    /\ sessions = NoSessions

RefIds == 1..(MaxRows + 1)

NextRef ==
    \/ \E c \in DOMAIN db.users, customer \in CustomerSpecs({"n1"}) :
          nextid.customer <= MaxRows + 1 /\ CreateCustomer(c, customer)
    \/ \E c \in DOMAIN db.users, i \in RefIds :
          /\ nextid.invoice <= MaxRows
          /\ CreateInvoice(c, [customer_id |-> i, status |-> "draft", items |-> <<>>])
    \/ \E c \in DOMAIN db.users, p \in PaymentSpecs(RefIds, {3}, {"cash"}, {"pending"}) :
          nextid.payment <= MaxRows /\ CreatePayment(c, p)
    \/ \E c \in DOMAIN db.users, i \in RefIds : DeleteUser(c, i)
    \/ \E c \in DOMAIN db.users, i \in RefIds : DeleteCustomer(c, i)
    \/ \E c \in DOMAIN db.users, i \in RefIds : DeleteInvoice(c, i)
    \/ \E c \in DOMAIN db.users, i \in RefIds : DeletePayment(c, i)

SpecRef == InitRef /\ [][NextRef]_vars

(***************************************************************************)
(* References between the stored rows.                                     *)
(***************************************************************************)
\* C27: after any sequence of create and delete requests, deletions of a
\* customer, a user or an invoice that other rows refer to included, the
\* customer_id and user_id of every stored invoice name a stored customer
\* and user, and the invoice_id and user_id of every stored payment name a
\* stored invoice and user.
C27_ReferencesStored ==
    /\ \A i \in DOMAIN db.invoices :
          /\ db.invoices[i].customer_id \in DOMAIN db.customers
          /\ db.invoices[i].user_id \in DOMAIN db.users
    /\ \A p \in DOMAIN db.payments :
          /\ db.payments[p].invoice_id \in DOMAIN db.invoices
          /\ db.payments[p].user_id \in DOMAIN db.users

\* A delete of a customer that a stored invoice refers to was just refused by
\* the commit.
C27_Witness ==
    /\ Done(resp, "delete_customer", 500)
    /\ \E i \in DOMAIN db.invoices : db.invoices[i].customer_id = resp.id

C27_WitnessUser ==
    /\ Done(resp, "delete_user", 500)
    /\ \E p \in DOMAIN db.payments : db.payments[p].user_id = resp.id

C27_WitnessInvoice ==
    /\ Done(resp, "delete_invoice", 500)
    /\ \E p \in DOMAIN db.payments : db.payments[p].invoice_id = resp.id

\* A customer was deleted once no invoice referred to it any more.
C27_WitnessFreed ==
    /\ Done(resp, "delete_customer", 200)
    /\ nextid.invoice > 1
    /\ DOMAIN db.invoices = {}

(***************************************************************************)
(* SpecStore: the handlers of SpecPerm together with the by-id user and    *)
(* customer handlers, from the same store.  The user requests are those of *)
(* the regular users and, on an id that is not stored, of the super-admin; *)
(* the customer updates and deletes address an id that is not stored.      *)
(***************************************************************************)
StoreUserIds == {1, 4}

StoreUserUpdates ==
    {u \in UserUpdates({"n2"}, {}, {{}}) : u.name /= {} /\ u.is_super_admin = {TRUE}}

\* The user requests of a super-admin address an id that is not stored.
MissingForAdmin(c, i) == is_super_admin(db, c) => i \notin DOMAIN db.users

NextStore ==
    \/ NextPerm
    \/ \E c \in DOMAIN db.users, i \in StoreUserIds : ReadUser(c, i)
    \/ \E c \in DOMAIN db.users, i \in StoreUserIds, u \in StoreUserUpdates :
          MissingForAdmin(c, i) /\ UpdateUser(c, i, u)
    \/ \E c \in DOMAIN db.users, i \in StoreUserIds :
          MissingForAdmin(c, i) /\ DeleteUser(c, i)
    \/ \E c \in DOMAIN db.users, i \in PermIds : ReadCustomer(c, i)
    \/ \E c \in DOMAIN db.users, i \in PermIds \ DOMAIN db.customers,
          u \in CustomerUpdates({"n2"}, {}) :
          u.phone = {} /\ UpdateCustomer(c, i, u)
    \/ \E c \in DOMAIN db.users, i \in PermIds \ DOMAIN db.customers :
          DeleteCustomer(c, i)

SpecStore == InitPerm /\ [][NextStore]_vars

(***************************************************************************)
(* Requests that are refused.                                              *)
(***************************************************************************)
\* C28: a request answered 403 or 404 leaves the whole store as it was: no
\* user, customer, invoice, item or payment is created, changed or removed.
C28_RefusedChangesNothing ==
    [][resp'.code \in {403, 404} => db' = db]_vars

\* The owner's update of an invoice named a customer that is not stored, and a
\* new status: the answer is 404 and the status is the old one.
C28_Witness ==
    /\ Done(resp, "update_invoice", 404)
    /\ resp.id \in DOMAIN db.invoices
    /\ resp.req.status = {"sent"} /\ resp.req.customer_id = {2}
    /\ db.invoices[resp.id].status = "draft"

\* A regular user asked for the super-admin flag and a new name: the answer is
\* 403 and the name is the old one.
C28_WitnessUser ==
    /\ Done(resp, "update_user", 403)
    /\ resp.caller = resp.id
    /\ resp.req.name = {"n2"} /\ resp.req.is_super_admin = {TRUE}
    /\ db.users[resp.id].name /= "n2"

\* A regular user who does not own the invoice asked to record a payment.
C28_WitnessPayment ==
    /\ Done(resp, "create_payment", 403)
    /\ resp.id \in DOMAIN db.invoices
    /\ DOMAIN db.payments = {}

(***************************************************************************)
(* The paid flag and the paid status of an invoice (models.Invoice.is_paid *)
(* and models.Invoice.status), under SpecMut.                              *)
(***************************************************************************)
PaidFlagMatchesStatus(invoice) == invoice.is_paid <=> (invoice.status = "paid")

\* C29: in every reachable state, an invoice has is_paid true exactly when
\* its status is "paid".
C29_PaidIffStatusPaid ==
    \A i \in DOMAIN db.invoices : PaidFlagMatchesStatus(db.invoices[i])

\* C29, the part that holds: a step other than an invoice update leaves the
\* flag and the status of every invoice it keeps in agreement when they
\* agreed before, a created invoice carries a false flag together with the
\* status of its request, and an invoice update stores the flag and the
\* status its payload supplies and keeps the ones it leaves out.
C29_PaidIffStatusPaidOutsideInvoiceRequests ==
    [][/\ resp'.op /= "update_invoice" =>
           \A i \in DOMAIN db.invoices \cap DOMAIN db'.invoices :
               PaidFlagMatchesStatus(db.invoices[i])
                   => PaidFlagMatchesStatus(db'.invoices[i])
       /\ \A i \in DOMAIN db'.invoices \ DOMAIN db.invoices :
               /\ resp'.op = "create_invoice"
               /\ ~db'.invoices[i].is_paid
               /\ db'.invoices[i].status = resp'.req.status
       /\ (resp'.op = "update_invoice" /\ resp'.code = 200) =>
           /\ db'.invoices[resp'.id].is_paid =
                  Patched(db.invoices[resp'.id].is_paid, resp'.req.is_paid)
           /\ db'.invoices[resp'.id].status =
                  Patched(db.invoices[resp'.id].status, resp'.req.status)]_vars

\* A payment has just marked an invoice paid, flag and status together.
C29_Witness ==
    /\ resp.op = "create_payment"
    /\ resp.code = 201
    /\ \E i \in DOMAIN db.invoices :
           /\ i = resp.req.invoice_id
           /\ db.invoices[i].is_paid
           /\ db.invoices[i].status = "paid"

\* An invoice update has set the flag alone on an invoice that is not "paid".
C29_WitnessFlagAlone ==
    /\ resp.op = "update_invoice"
    /\ resp.code = 200
    /\ resp.req.is_paid = {TRUE}
    /\ resp.req.status = {}
    /\ db.invoices[resp.id].is_paid
    /\ db.invoices[resp.id].status /= "paid"

\* An invoice created with status "paid" is stored with a false flag.
C29_WitnessCreatedPaid ==
    /\ resp.op = "create_invoice"
    /\ resp.code = 201
    /\ \E i \in DOMAIN db.invoices :
           db.invoices[i].status = "paid" /\ ~db.invoices[i].is_paid

(***************************************************************************)
(* SpecFrame: one user adds, updates and deletes the items of an invoice   *)
(* while payments are recorded for it.                                     *)
(***************************************************************************)
InitFrame ==
    LET d0 == [users |-> (1 :> User("u1", "u1@x", FALSE)),
               customers |-> (1 :> Customer("c1")),
               invoices |-> EmptyTable, items |-> EmptyTable, payments |-> EmptyTable]
        d1 == crud_create_invoice(d0, [customer_id |-> 1, status |-> "sent",
                                       items |-> <<Item("a", 2, 3)>>], 1, 1, 1).db
    IN  /\ db = d1
        /\ nextid = [user |-> 2, customer |-> 2, invoice |-> 2, item |-> 2, payment |-> 1]
        /\ resp = NoResponse
        /\ sessions = NoSessions

FrameItemIds == 1..(MaxItems + 1)

NextFrame ==
    \/ \E i \in {1, 2}, it \in {Item("a", 2, 3), Item("b", -1, 3)} :
          RoomForItem /\ CreateInvoiceItem(1, i, it)
    \/ \E i \in FrameItemIds,
          u \in [description : {{}}, quantity : Opt(Quantities), unit_price : {{}}] :
          UpdateInvoiceItem(1, i, u)
    \/ \E i \in FrameItemIds : DeleteInvoiceItem(1, i)
    \/ \E p \in PaymentSpecs({1}, {3, 6}, {"cash"}, {"completed", "pending"}) :
          nextid.payment <= MaxRows /\ CreatePayment(1, p)

SpecFrame == InitFrame /\ [][NextFrame]_vars

ItemMutations == {"create_invoice_item", "update_invoice_item", "delete_invoice_item"}

\* The item an item request is about, and the invoice that item belongs to.
AffectedItem(r) == IF r.op = "create_invoice_item" THEN r.ret ELSE r.id

AffectedInvoice(d, r) ==
    IF r.op = "create_invoice_item" THEN r.id
    ELSE IF r.id \in DOMAIN d.items THEN d.items[r.id].invoice_id ELSE None

\* C30: add-item, update-item and delete-item change only the affected item
\* and the total_amount of its invoice; is_paid, status, user_id and
\* customer_id of every invoice, and every payment, stay as they were.
C30_ItemFrame ==
    [][resp'.op \in ItemMutations =>
        /\ db'.payments = db.payments
        /\ db'.users = db.users
        /\ db'.customers = db.customers
        /\ DOMAIN db'.invoices = DOMAIN db.invoices
        /\ \A i \in DOMAIN db.invoices :
               /\ db'.invoices[i] =
                      [db.invoices[i] EXCEPT !.total_amount = db'.invoices[i].total_amount]
               /\ i /= AffectedInvoice(db, resp') =>
                      db'.invoices[i] = db.invoices[i]
        /\ \A k \in (DOMAIN db.items \cup DOMAIN db'.items) \ {AffectedItem(resp')} :
               /\ k \in DOMAIN db.items \cap DOMAIN db'.items
               /\ db'.items[k] = db.items[k]]_vars

\* An item has just been added to an invoice marked paid, and the total now
\* exceeds the completed payments.
C30_Witness ==
    /\ resp.op = "create_invoice_item"
    /\ resp.code = 201
    /\ db.invoices[resp.id].is_paid
    /\ db.invoices[resp.id].status = "paid"
    /\ db.invoices[resp.id].total_amount > CompletedSum(db, resp.id)

\* The same after an item update that raised the total.
C30_WitnessUpdate ==
    /\ resp.op = "update_invoice_item"
    /\ resp.code = 200
    /\ \E i \in DOMAIN db.invoices :
           /\ db.invoices[i].is_paid
           /\ db.invoices[i].total_amount > CompletedSum(db, i)

\* An item of a paid invoice has just been deleted.
C30_WitnessDelete ==
    /\ resp.op = "delete_invoice_item"
    /\ resp.code = 204
    /\ \E i \in DOMAIN db.invoices :
           /\ db.invoices[i].is_paid
           /\ db.invoices[i].total_amount < CompletedSum(db, i)

====
